---------------------------- MODULE Spec2Model ----------------------------
(***************************************************************************)
(* Rule-based accessibility-text inference for Android layout elements.    *)
(*                                                                         *)
(*   enhanced_rule_engine.py          EnhancedAccessibilityRuleEngine      *)
(*   complete_accessibility_system.py CompleteAccessibilitySystem          *)
(*                                                                         *)
(* Python strings are sequences of one-character strings, so that          *)
(* lower(), strip(), split() and the substring test `in` are computed,     *)
(* never assumed.  A dict is the sequence of its entries [key, val] in     *)
(* insertion order (json.load keeps the order of the file).  Confidence    *)
(* scores are in hundredths (0.95 is 95).                                  *)
(***************************************************************************)
EXTENDS Integers, Sequences, FiniteSets, TLC

VARIABLES
    files,      \* the five rule files of rules_dir, as the disk holds them
    tables,     \* the engine's five rule tables (self.resource_rules, ...)
    loaded,     \* history: the tables as load_rules left them
    pc,         \* position of the engine's constructor: "new" | "ready"
    element,    \* the UIElement the caller is working on
    label,      \* what generate_alt_text(element) returned, NotCalled before
    alts,       \* what get_alternatives(element) returned, NotCalled before
    conf,       \* what get_matching_confidence(element) returned
    markup,     \* the xml_content handed to analyze_xml_layout
    results,    \* the list analyze_xml_layout returned
    report,     \* the dict generate_report returned
    parsed,     \* the UIElements analyze_xml_layout parsed (its ui_elements)
    arg,        \* the arguments of a helper method called on its own
    ret         \* what that helper returned, NotCalled before

vars == <<files, tables, loaded, pc, element, label, alts, conf,
          markup, results, report, parsed, arg, ret>>

----------------------------------------------------------------------------
(* Python str operations                                                   *)

\* str.lower() on one character
LowerChar(c) ==
    CASE c = "A" -> "a" [] c = "B" -> "b" [] c = "C" -> "c" [] c = "D" -> "d"
      [] c = "E" -> "e" [] c = "F" -> "f" [] c = "G" -> "g" [] c = "H" -> "h"
      [] c = "I" -> "i" [] c = "J" -> "j" [] c = "K" -> "k" [] c = "L" -> "l"
      [] c = "M" -> "m" [] c = "N" -> "n" [] c = "O" -> "o" [] c = "P" -> "p"
      [] c = "Q" -> "q" [] c = "R" -> "r" [] c = "S" -> "s" [] c = "T" -> "t"
      [] c = "U" -> "u" [] c = "V" -> "v" [] c = "W" -> "w" [] c = "X" -> "x"
      [] c = "Y" -> "y" [] c = "Z" -> "z"
      [] OTHER -> c

\* str.lower()
lower(s) == [i \in 1..Len(s) |-> LowerChar(s[i])]

\* the characters str.strip() and str.split() treat as whitespace
IsSpace(c) == c = " "

\* `sub in s` for two strings
Contains(sub, s) ==
    \E i \in 0..(Len(s) - Len(sub)) : SubSeq(s, i + 1, i + Len(sub)) = sub

\* s.startswith(prefix)
startswith(s, prefix) ==
    Len(prefix) <= Len(s) /\ SubSeq(s, 1, Len(prefix)) = prefix

\* str.strip()
strip(s) ==
    LET keep == {i \in 1..Len(s) : ~IsSpace(s[i])}
    IN  IF keep = {} THEN <<>>
        ELSE LET lo == CHOOSE i \in keep : \A j \in keep : i <= j
                 hi == CHOOSE i \in keep : \A j \in keep : j <= i
             IN  SubSeq(s, lo, hi)

\* str.split(): the maximal runs of non-whitespace characters, in order
RECURSIVE split(_)
split(s) ==
    IF s = <<>> THEN <<>>
    ELSE IF IsSpace(s[1]) THEN split(Tail(s))
    ELSE LET stops == {i \in 1..Len(s) : IsSpace(s[i])}
             n == IF stops = {} THEN Len(s)
                  ELSE (CHOOSE i \in stops : \A j \in stops : i <= j) - 1
         IN  <<SubSeq(s, 1, n)>> \o split(SubSeq(s, n + 1, Len(s)))

\* s.split('.')[-1]: what follows the last '.', the whole of s without one
LastSegment(s) ==
    LET dots == {i \in 1..Len(s) : s[i] = "."}
    IN  IF dots = {} THEN s
        ELSE SubSeq(s, (CHOOSE i \in dots : \A j \in dots : j <= i) + 1, Len(s))

\* code points, ascending: the order Python compares characters in
CodePoints ==
    <<" ", "+", ".", "/", ":", "<", ">", "@", "A", "B", "C", "D",
      "E", "F", "G", "H", "I", "J", "K", "L", "M", "N", "O", "P",
      "Q", "R", "S", "T", "U", "V", "W", "X", "Y", "Z", "_", "a",
      "b", "c", "d", "e", "f", "g", "h", "i", "j", "k", "l", "m",
      "n", "o", "p", "q", "r", "s", "t", "u", "v", "w", "x", "y",
      "z">>

ord(c) == CHOOSE i \in 1..Len(CodePoints) : CodePoints[i] = c

\* a < b for two strings (lexicographic by code point, a proper prefix first)
RECURSIVE StrLess(_, _)
StrLess(a, b) ==
    IF b = <<>> THEN FALSE
    ELSE IF a = <<>> THEN TRUE
    ELSE IF a[1] = b[1] THEN StrLess(Tail(a), Tail(b))
    ELSE ord(a[1]) < ord(b[1])

----------------------------------------------------------------------------
(* Python dict operations                                                  *)

\* key in d
HasKey(d, k) == \E i \in 1..Len(d) : d[i].key = k

\* d[key]
Lookup(d, k) == d[CHOOSE i \in 1..Len(d) : d[i].key = k].val

----------------------------------------------------------------------------
(* Values a call hands back                                                *)

\* Optional[str]: None, a string, or the IndexError an empty list raises
None == [kind |-> "None", val |-> <<>>]
Str(s) == [kind |-> "str", val |-> s]
IndexError == [kind |-> "IndexError", val |-> <<>>]
NotCalled == [kind |-> "NotCalled", val |-> <<>>]

\* a returned list, and the place of one not returned yet
NoList == [kind |-> "NotCalled", val |-> <<>>]
List(l) == [kind |-> "list", val |-> l]

\* Python truth of an Optional[str]: a non-empty string
Truthy(r) == r.kind = "str" /\ r.val # <<>>

\* lst[0]
Index0(lst) == IF lst = <<>> THEN IndexError ELSE Str(lst[1])


----------------------------------------------------------------------------
(* EnhancedAccessibilityRuleEngine: the matchers                           *)

\* the literals of _get_default_alt_text, each one opaque token
LBL_BUTTON == <<"<beoteun>">>
LBL_IMAGE == <<"<imiji>">>
LBL_EDITTEXT == <<"<ibryeok pildeu>">>
LBL_TEXTVIEW == <<"<tekseuteu>">>
LBL_CHECKBOX == <<"<chekeubakseu>">>
LBL_RADIO == <<"<radio beoteun>">>
LBL_SWITCH == <<"<seuwichi>">>
LBL_SEEKBAR == <<"<seullaideo>">>
LBL_UI_ELEMENT == <<"<UI yoso>">>

\* (len(pattern), pattern, alternatives) tuples: a sorts before b.  Keys of a
\* dict differ, so the comparison never reaches the alternatives.
TupleLess(a, b) ==
    \/ Len(a.key) < Len(b.key)
    \/ Len(a.key) = Len(b.key) /\ StrLess(a.key, b.key)

\* _match_resource_id taking the last candidate of an exact key
MatchResourceIdLast(resource_id, t) ==
    IF HasKey(t.resource_rules, resource_id)
    THEN LET l == Lookup(t.resource_rules, resource_id)
         IN  IF l = <<>> THEN IndexError ELSE Str(l[Len(l)])
    ELSE None

_match_resource_id(resource_id, t) ==
    IF HasKey(t.resource_rules, resource_id)
    THEN Index0(Lookup(t.resource_rules, resource_id))
    ELSE LET resource_lower == lower(resource_id)
             Hit(entry) == Contains(lower(entry.key), resource_lower)
             matching_patterns == SelectSeq(t.resource_rules, Hit)
             n == Len(matching_patterns)
         IN  IF n > 0
             THEN \* sort(reverse=True) puts the greatest tuple first
                  LET first == CHOOSE i \in 1..n : \A j \in 1..n :
                                   j # i => TupleLess(matching_patterns[j],
                                                      matching_patterns[i])
                  IN  Index0(matching_patterns[first].val)
             ELSE None

\* _match_app_context keeping the last matching key instead of the first
MatchAppContextLast(e, t) ==
    IF e.app_context = <<>> THEN None
    ELSE LET Hit(entry) == Contains(entry.key, e.app_context)
             hits == SelectSeq(t.app_specific_rules, Hit)
         IN  IF hits = <<>> THEN None
             ELSE IF hits[Len(hits)].val # <<>>
                  THEN Str(hits[Len(hits)].val[1]) ELSE None

_match_app_context(e, t) ==
    IF e.app_context = <<>> THEN None
    ELSE LET Hit(entry) == Contains(entry.key, e.app_context)
             hits == SelectSeq(t.app_specific_rules, Hit)
         IN  IF hits = <<>> THEN None
             ELSE IF hits[1].val # <<>> THEN Str(hits[1].val[1]) ELSE None

\* every pattern of text_pattern_rules, category by category
RECURSIVE AllPatterns(_)
AllPatterns(d) ==
    IF d = <<>> THEN <<>> ELSE d[1].val \o AllPatterns(Tail(d))

\* the category loop both action-word searches run for one word
PatternForWord(word, t) ==
    LET Has(entry) == \E i \in 1..Len(entry.val) :
                          Contains(word, lower(entry.val[i]))
        cats == SelectSeq(t.text_pattern_rules, Has)
    IN  IF cats = <<>> THEN None ELSE Str(cats[1].val[1])

\* the first word of a list whose category loop returns
RECURSIVE FirstWordPattern(_, _)
FirstWordPattern(words, t) ==
    IF words = <<>> THEN None
    ELSE LET r == PatternForWord(words[1], t)
         IN  IF r # None THEN r ELSE FirstWordPattern(Tail(words), t)

_match_text_pattern(text, t) ==
    IF text = <<>> THEN None
    ELSE LET text_lower == lower(text)
             In(p) == Contains(lower(p), text_lower)
             direct == SelectSeq(AllPatterns(t.text_pattern_rules), In)
             IsAction(w) == HasKey(t.action_rules, w)
         IN  IF direct # <<>> THEN Str(direct[1])
             ELSE FirstWordPattern(SelectSeq(split(text_lower), IsAction), t)

\* _match_class_name trying the substring keys before the simple name
MatchClassNameSubstringFirst(class_name, t) ==
    LET simple_name == LastSegment(class_name)
        class_lower == lower(class_name)
        Hit(entry) == Contains(lower(entry.key), class_lower)
        hits == SelectSeq(t.class_rules, Hit)
    IN  IF HasKey(t.class_rules, class_name)
        THEN Index0(Lookup(t.class_rules, class_name))
        ELSE IF hits # <<>> THEN Index0(hits[1].val)
        ELSE IF HasKey(t.class_rules, simple_name)
        THEN Index0(Lookup(t.class_rules, simple_name))
        ELSE None

_match_class_name(class_name, t) ==
    LET simple_name == LastSegment(class_name)
        class_lower == lower(class_name)
        Hit(entry) == Contains(lower(entry.key), class_lower)
        hits == SelectSeq(t.class_rules, Hit)
    IN  IF HasKey(t.class_rules, class_name)
        THEN Index0(Lookup(t.class_rules, class_name))
        ELSE IF HasKey(t.class_rules, simple_name)
        THEN Index0(Lookup(t.class_rules, simple_name))
        ELSE IF hits # <<>> THEN Index0(hits[1].val)
        ELSE None

_infer_from_context(e, t) ==
    LET context == lower(e.parent_context \o <<" ">> \o e.sibling_context)
        In(p) == Contains(lower(p), context)
        direct == SelectSeq(AllPatterns(t.text_pattern_rules), In)
        InContext(entry) == Contains(entry.key, context)
        words == SelectSeq(t.action_rules, InContext)
    IN  IF direct # <<>> THEN Str(direct[1])
        ELSE FirstWordPattern([i \in 1..Len(words) |-> words[i].key], t)

\* _get_default_alt_text testing "radio" before "button"
DefaultAltTextRadioFirst(e) ==
    LET class_name == lower(e.class_name)
    IN  IF Contains(<<"r","a","d","i","o">>, class_name) THEN LBL_RADIO
        ELSE IF Contains(<<"b","u","t","t","o","n">>, class_name) THEN LBL_BUTTON
        ELSE IF Contains(<<"i","m","a","g","e">>, class_name) THEN LBL_IMAGE
        ELSE IF Contains(<<"e","d","i","t","t","e","x","t">>, class_name)
             THEN LBL_EDITTEXT
        ELSE IF Contains(<<"t","e","x","t","v","i","e","w">>, class_name)
             THEN LBL_TEXTVIEW
        ELSE IF Contains(<<"c","h","e","c","k","b","o","x">>, class_name)
             THEN LBL_CHECKBOX
        ELSE IF Contains(<<"s","w","i","t","c","h">>, class_name)
             THEN LBL_SWITCH
        ELSE IF Contains(<<"s","e","e","k","b","a","r">>, class_name)
             THEN LBL_SEEKBAR
        ELSE LBL_UI_ELEMENT

\* _get_default_alt_text answering the class name itself where no keyword
\* is found
DefaultAltTextClassName(e) ==
    LET class_name == lower(e.class_name)
    IN  IF Contains(<<"b","u","t","t","o","n">>, class_name) THEN LBL_BUTTON
        ELSE IF Contains(<<"i","m","a","g","e">>, class_name) THEN LBL_IMAGE
        ELSE IF Contains(<<"e","d","i","t","t","e","x","t">>, class_name)
             THEN LBL_EDITTEXT
        ELSE IF Contains(<<"t","e","x","t","v","i","e","w">>, class_name)
             THEN LBL_TEXTVIEW
        ELSE IF Contains(<<"c","h","e","c","k","b","o","x">>, class_name)
             THEN LBL_CHECKBOX
        ELSE IF Contains(<<"r","a","d","i","o">>, class_name) THEN LBL_RADIO
        ELSE IF Contains(<<"s","w","i","t","c","h">>, class_name)
             THEN LBL_SWITCH
        ELSE IF Contains(<<"s","e","e","k","b","a","r">>, class_name)
             THEN LBL_SEEKBAR
        ELSE e.class_name

_get_default_alt_text(e) ==
    LET class_name == lower(e.class_name)
    IN  IF Contains(<<"b","u","t","t","o","n">>, class_name) THEN LBL_BUTTON
        ELSE IF Contains(<<"i","m","a","g","e">>, class_name) THEN LBL_IMAGE
        ELSE IF Contains(<<"e","d","i","t","t","e","x","t">>, class_name)
             THEN LBL_EDITTEXT
        ELSE IF Contains(<<"t","e","x","t","v","i","e","w">>, class_name)
             THEN LBL_TEXTVIEW
        ELSE IF Contains(<<"c","h","e","c","k","b","o","x">>, class_name)
             THEN LBL_CHECKBOX
        ELSE IF Contains(<<"r","a","d","i","o">>, class_name) THEN LBL_RADIO
        ELSE IF Contains(<<"s","w","i","t","c","h">>, class_name)
             THEN LBL_SWITCH
        ELSE IF Contains(<<"s","e","e","k","b","a","r">>, class_name)
             THEN LBL_SEEKBAR
        ELSE LBL_UI_ELEMENT

----------------------------------------------------------------------------
(* EnhancedAccessibilityRuleEngine: the three public calls                 *)

\* a tier testing `alt_text is not None` instead of the truth of alt_text
TierNotNone(m, rest) ==
    IF m.kind = "IndexError" THEN IndexError
    ELSE IF m.kind = "str" THEN m
    ELSE rest

\* a tier of generate_alt_text: `alt_text = m; if alt_text: return alt_text`,
\* the IndexError of m passing through, Rest evaluated only when m is falsy
Tier(m, rest) ==
    IF m.kind = "IndexError" THEN IndexError
    ELSE IF Truthy(m) THEN m
    ELSE rest

\* generate_alt_text below its first test: tiers 2 to 7
LabelFromRules(e, t) ==
    Tier(IF e.resource_id # <<>> THEN _match_resource_id(e.resource_id, t)
         ELSE None,
    Tier(IF e.app_context # <<>> THEN _match_app_context(e, t) ELSE None,
    Tier(IF e.text # <<>> THEN _match_text_pattern(e.text, t) ELSE None,
    Tier(IF e.class_name # <<>> THEN _match_class_name(e.class_name, t)
         ELSE None,
    Tier(_infer_from_context(e, t),
         Str(_get_default_alt_text(e)))))))

\* generate_alt_text returning the description it tested, stripped
GenerateAltTextStripped(e, t) ==
    IF e.content_description # <<>> /\ strip(e.content_description) # <<>>
    THEN Str(strip(e.content_description))
    ELSE LabelFromRules(e, t)

generate_alt_text(e, t) ==
    IF e.content_description # <<>> /\ strip(e.content_description) # <<>>
    THEN Str(e.content_description)
    ELSE LabelFromRules(e, t)

\* list(dict.fromkeys(lst)): the first occurrence of each value, in order
RECURSIVE Unique(_)
Unique(lst) ==
    IF lst = <<>> THEN <<>>
    ELSE LET init == Unique(SubSeq(lst, 1, Len(lst) - 1))
             x == lst[Len(lst)]
         IN  IF \E i \in 1..Len(init) : init[i] = x THEN init
             ELSE Append(init, x)

\* the slice bound of unique_alternatives[:5]
MAX_ALTERNATIVES == 5

\* lst[:n]
Slice(lst, n) == SubSeq(lst, 1, IF Len(lst) < n THEN Len(lst) ELSE n)

\* get_alternatives slicing before it removes the duplicates
GetAlternativesSliceFirst(e, t) ==
    LET fromId == IF e.resource_id # <<>> /\ HasKey(t.resource_rules, e.resource_id)
                  THEN Lookup(t.resource_rules, e.resource_id) ELSE <<>>
        fromClass == IF e.class_name # <<>> /\ HasKey(t.class_rules, e.class_name)
                     THEN Lookup(t.class_rules, e.class_name) ELSE <<>>
        Hit(entry) == Contains(entry.key, e.app_context)
        fromApp == IF e.app_context # <<>>
                   THEN AllPatterns(SelectSeq(t.app_specific_rules, Hit))
                   ELSE <<>>
    IN  Unique(Slice(fromId \o fromClass \o fromApp, MAX_ALTERNATIVES))

get_alternatives(e, t) ==
    LET fromId == IF e.resource_id # <<>> /\ HasKey(t.resource_rules, e.resource_id)
                  THEN Lookup(t.resource_rules, e.resource_id) ELSE <<>>
        fromClass == IF e.class_name # <<>> /\ HasKey(t.class_rules, e.class_name)
                     THEN Lookup(t.class_rules, e.class_name) ELSE <<>>
        Hit(entry) == Contains(entry.key, e.app_context)
        fromApp == IF e.app_context # <<>>
                   THEN AllPatterns(SelectSeq(t.app_specific_rules, Hit))
                   ELSE <<>>
        alternatives == fromId \o fromClass \o fromApp
    IN  Slice(Unique(alternatives), MAX_ALTERNATIVES)

\* the scores get_matching_confidence returns, in hundredths
SCORE_CONTENT_DESCRIPTION == 100
SCORE_RESOURCE_ID_EXACT == 95
\* a partial match scored above the exact one
ScorePartialRaised == SCORE_RESOURCE_ID_EXACT + 3

SCORE_RESOURCE_ID_PARTIAL == 80
SCORE_APP_CONTEXT == 70
SCORE_TEXT_PATTERN == 60
SCORE_CLASS_NAME_EXACT == 50
SCORE_CLASS_NAME_SIMPLE == 40
SCORE_CONTEXT_INFERENCE == 30
SCORE_DEFAULT == 10

Confidence(tier, score) == [tier |-> tier, score |-> score]

\* get_matching_confidence below its resource-id tests
ConfidenceBelowResourceId(e, t) ==
    IF e.app_context # <<>>
       /\ \E i \in 1..Len(t.app_specific_rules) :
              Contains(t.app_specific_rules[i].key, e.app_context)
    THEN Confidence("app_context", SCORE_APP_CONTEXT)
    ELSE IF e.text # <<>> /\ Truthy(_match_text_pattern(e.text, t))
    THEN Confidence("text_pattern", SCORE_TEXT_PATTERN)
    ELSE IF e.class_name # <<>> /\ HasKey(t.class_rules, e.class_name)
    THEN Confidence("class_name_exact", SCORE_CLASS_NAME_EXACT)
    ELSE IF e.class_name # <<>>
            /\ HasKey(t.class_rules, LastSegment(e.class_name))
    THEN Confidence("class_name_simple", SCORE_CLASS_NAME_SIMPLE)
    ELSE IF Truthy(_infer_from_context(e, t))
    THEN Confidence("context_inference", SCORE_CONTEXT_INFERENCE)
    ELSE Confidence("default", SCORE_DEFAULT)

\* pattern.lower() in resource_lower, for some key of resource_rules
PartialResourceId(e, t) ==
    \E i \in 1..Len(t.resource_rules) :
        Contains(lower(t.resource_rules[i].key), lower(e.resource_id))

\* get_matching_confidence probing app_context before the partial resource id
ConfidenceAppFirst(e, t) ==
    IF e.content_description # <<>>
    THEN Confidence("content_description", SCORE_CONTENT_DESCRIPTION)
    ELSE IF e.resource_id # <<>> /\ HasKey(t.resource_rules, e.resource_id)
    THEN Confidence("resource_id_exact", SCORE_RESOURCE_ID_EXACT)
    ELSE IF ConfidenceBelowResourceId(e, t).tier = "app_context"
    THEN Confidence("app_context", SCORE_APP_CONTEXT)
    ELSE IF e.resource_id # <<>> /\ PartialResourceId(e, t)
    THEN Confidence("resource_id_partial", SCORE_RESOURCE_ID_PARTIAL)
    ELSE ConfidenceBelowResourceId(e, t)

get_matching_confidence(e, t) ==
    IF e.content_description # <<>>
    THEN Confidence("content_description", SCORE_CONTENT_DESCRIPTION)
    ELSE IF e.resource_id # <<>> /\ HasKey(t.resource_rules, e.resource_id)
    THEN Confidence("resource_id_exact", SCORE_RESOURCE_ID_EXACT)
    ELSE IF e.resource_id # <<>> /\ PartialResourceId(e, t)
    THEN Confidence("resource_id_partial", SCORE_RESOURCE_ID_PARTIAL)
    ELSE ConfidenceBelowResourceId(e, t)

----------------------------------------------------------------------------
(* Bounded inputs: rule tables and elements                                *)

\* most entries the five rule tables hold together
MaxEntries == 2

\* dicts of exactly n entries: distinct keys from K, values from V
RECURSIVE DictsOfLen(_, _, _)
DictsOfLen(K, V, n) ==
    IF n = 0 THEN {<<>>}
    ELSE {Append(d, [key |-> k, val |-> v]) :
              d \in DictsOfLen(K, V, n - 1), k \in K, v \in V}

DistinctKeys(d) == \A i, j \in 1..Len(d) : d[i].key = d[j].key => i = j

Dicts(K, V, n) == {d \in DictsOfLen(K, V, n) : DistinctKeys(d)}

\* Keys and candidate lists of the rule files.  Candidates are opaque labels
\* but for the empty string; patterns and keys are matched by character.
ResourceKeys == {<<"a","b">>, <<"b">>, <<"B">>}
ResourceLists == {<<>>, <<<<>>, <<"<r1>">>>>, <<<<"<r1>">>, <<"<r2>">>>>}
ClassKeys == {<<"a",".","B","t">>, <<"B","t">>, <<"b">>}
ClassLists == {<<>>, <<<<>>, <<"<c1>">>>>, <<<<"<c1>">>, <<"<r1>">>>>}
Categories == {<<"n","a","v">>}
PatternLists == {<<<<"g","o">>>>, <<<<"G","o"," ","o","n">>>>,
                 <<<<>>, <<"g","o">>>>,
                 <<<<"<t1>">>, <<"G","o"," ","o","n">>>>}
AppKeys == {<<"a","p","p">>, <<"p">>}
AppLists == {<<>>, <<<<"<a1>">>>>, <<<<>>, <<"<a1>">>>>}
ActionWords == {<<"g","o">>, <<"o","n">>}
\* the counts of action_rules are never read
ActionCounts == {1}

EmptyTables ==
    [resource_rules |-> <<>>, class_rules |-> <<>>, text_pattern_rules |-> <<>>,
     app_specific_rules |-> <<>>, action_rules |-> <<>>]

\* rule tables in the schema of the rule files, n entries in all at most
TablesUpTo(n) ==
    UNION { UNION { UNION { UNION {
      { [resource_rules |-> r, class_rules |-> c, text_pattern_rules |-> tp,
         app_specific_rules |-> a, action_rules |-> w] :
          r \in Dicts(ResourceKeys, ResourceLists, nr),
          c \in Dicts(ClassKeys, ClassLists, nc),
          tp \in Dicts(Categories, PatternLists, nt),
          a \in Dicts(AppKeys, AppLists, na),
          w \in UNION {Dicts(ActionWords, ActionCounts, nw) :
                          nw \in 0..(n - nr - nc - nt - na)} }
      : na \in 0..(n - nr - nc - nt) }
      : nt \in 0..(n - nr - nc) }
      : nc \in 0..(n - nr) }
      : nr \in 0..n }

RuleTables == TablesUpTo(MaxEntries)

UIElement(resource_id, class_name, text, content_description, clickable, parent_context, sibling_context, app_context) ==
    [resource_id |-> resource_id, class_name |-> class_name, text |-> text,
     content_description |-> content_description, bounds |-> <<>>,
     clickable |-> clickable, focusable |-> FALSE, enabled |-> TRUE,
     parent_context |-> parent_context, sibling_context |-> sibling_context,
     app_context |-> app_context]

Descriptions == {<<>>, <<" ">>, <<" ", "x">>}
ResourceIds == {<<>>, <<"a","b">>}
ClassNames == {<<>>, <<"a",".","B","t">>}
Texts == {<<>>, <<"G","o">>}
AppContexts == {<<>>, <<"a","p","p">>}
ParentContexts == {<<>>, <<"L",":","g","o">>}
SiblingContexts == {<<>>}

Elements ==
    {UIElement(id, cn, tx, cd, FALSE, pa, si, ap) :
        id \in ResourceIds, cn \in ClassNames, tx \in Texts,
        cd \in Descriptions, pa \in ParentContexts, si \in SiblingContexts,
        ap \in AppContexts}

----------------------------------------------------------------------------
(* load_rules                                                              *)

\* one rule file: absent, not JSON, or a JSON object
File(state, content) == [state |-> state, content |-> content]

\* rules_dir with all five files in place, holding t
ValidFiles(t) ==
    [resource_rules |-> File("valid", t.resource_rules),
     class_rules |-> File("valid", t.class_rules),
     text_pattern_rules |-> File("valid", t.text_pattern_rules),
     app_specific_rules |-> File("valid", t.app_specific_rules),
     action_rules |-> File("valid", t.action_rules)]

\* the order load_rules opens the files in
LoadOrder ==
    <<"resource_rules", "class_rules", "text_pattern_rules",
      "app_specific_rules", "action_rules">>

\* load_rules from its i-th open: open() or json.load() raises on a file
\* that is absent or corrupt, and the one except clause ends the method
RECURSIVE LoadFrom(_, _, _)
LoadFrom(i, fs, t) ==
    IF i > Len(LoadOrder) THEN t
    ELSE IF fs[LoadOrder[i]].state # "valid" THEN t
    ELSE LoadFrom(i + 1, fs, [t EXCEPT ![LoadOrder[i]] = fs[LoadOrder[i]].content])

load_rules(fs, t) == LoadFrom(1, fs, t)

----------------------------------------------------------------------------
(* xml.etree.ElementTree, as CompleteAccessibilitySystem uses it           *)

\* An xml_content is the document as written: whether its tags balance, whether
\* its root declares xmlns:android, and its nodes in document order, each with
\* its tag, the index of its parent (0 for the root) and its attributes as
\* written (prefix, local name, value).
NS_ANDROID == "{http://schemas.android.com/apk/res/android}"

WrittenAttr(prefix, local, value) ==
    [prefix |-> prefix, local |-> local, value |-> value]

Node(tag, attrs) == [tag |-> tag, parent |-> 0, attrs |-> attrs]

Markup(syntax, xmlns, nodes) ==
    [syntax |-> syntax, xmlns |-> xmlns, nodes |-> nodes]

\* the name of an attribute as a str: 'android:id', or 'id' without a prefix
QName(prefix, local) ==
    IF prefix = "" THEN <<local>> ELSE <<prefix, ":", local>>

\* the key ElementTree stores a parsed attribute under: the prefix replaced by
\* the namespace it is bound to, in braces
ExpandedName(a) ==
    IF a.prefix = "" THEN <<a.local>> ELSE <<NS_ANDROID, a.local>>

UnboundPrefix(xml) ==
    /\ ~xml.xmlns
    /\ \E i \in 1..Len(xml.nodes) :
          \E j \in 1..Len(xml.nodes[i].attrs) :
              xml.nodes[i].attrs[j].prefix # ""

WellFormed(xml) == xml.syntax /\ ~UnboundPrefix(xml)

ParseError == [kind |-> "ParseError", val |-> <<>>]

\* ET.fromstring: the tree, or ParseError for a document that is not
\* well-formed
fromstring(xml) ==
    IF ~WellFormed(xml) THEN ParseError
    ELSE [kind |-> "Element",
          val |-> [i \in 1..Len(xml.nodes) |->
                     [tag |-> xml.nodes[i].tag,
                      parent |-> xml.nodes[i].parent,
                      attrib |-> [j \in 1..Len(xml.nodes[i].attrs) |->
                                    [key |-> ExpandedName(xml.nodes[i].attrs[j]),
                                     val |-> xml.nodes[i].attrs[j].value]]]]]

\* element.get(key, default)
get(node, key, default) ==
    IF HasKey(node.attrib, key) THEN Lookup(node.attrib, key) ELSE default

----------------------------------------------------------------------------
(* CompleteAccessibilitySystem: from a node to a UIElement                 *)

ui_classes ==
    {<<"B","u","t","t","o","n">>,
     <<"I","m","a","g","e","B","u","t","t","o","n">>,
     <<"T","e","x","t","V","i","e","w">>,
     <<"E","d","i","t","T","e","x","t">>,
     <<"I","m","a","g","e","V","i","e","w">>,
     <<"C","h","e","c","k","B","o","x">>,
     <<"R","a","d","i","o","B","u","t","t","o","n">>,
     <<"S","w","i","t","c","h">>,
     <<"S","e","e","k","B","a","r">>,
     <<"T","o","g","g","l","e","B","u","t","t","o","n">>,
     <<"F","l","o","a","t","i","n","g","A","c","t","i","o","n","B","u","t","t","o","n">>,
     <<"T","o","o","l","b","a","r">>,
     <<"B","o","t","t","o","m","N","a","v","i","g","a","t","i","o","n","V","i","e","w">>,
     <<"T","a","b","L","a","y","o","u","t">>,
     <<"R","e","c","y","c","l","e","r","V","i","e","w">>,
     <<"L","i","s","t","V","i","e","w">>,
     <<"S","p","i","n","n","e","r">>,
     <<"P","r","o","g","r","e","s","s","B","a","r">>}

\* _is_ui_element looking the whole tag up in the allow-list
IsUiElementFullTag(node) == node.tag \in ui_classes

_is_ui_element(node) == LastSegment(node.tag) \in ui_classes

_normalize_resource_id(resource_id) ==
    IF resource_id = <<>> THEN <<>>
    ELSE IF startswith(resource_id, <<"@","+","i","d","/">>)
            \/ startswith(resource_id, <<"@","i","d","/">>)
    THEN SubSeq(resource_id, 6, Len(resource_id))
    ELSE resource_id

\* self.element_parents, as _build_parent_relationships fills it: the parent
\* of node i of the tree, 0 for the root
element_parents(tree, i) == tree[i].parent

_get_parent_context(tree, i) ==
    LET parent == element_parents(tree, i)
    IN  IF parent # 0
        THEN LastSegment(tree[parent].tag) \o <<":">>
             \o _normalize_resource_id(
                    get(tree[parent], QName("android", "id"), <<>>))
        ELSE <<>>

\* " ".join(lst)
RECURSIVE join(_)
join(lst) ==
    IF lst = <<>> THEN <<>>
    ELSE IF Len(lst) = 1 THEN lst[1]
    ELSE lst[1] \o <<" ">> \o join(Tail(lst))

\* what _get_sibling_context appends for one sibling
SiblingSummary(sibling) ==
    LET sibling_id == _normalize_resource_id(
                          get(sibling, QName("android", "id"), <<>>))
        sibling_class == LastSegment(sibling.tag)
        sibling_text == get(sibling, QName("android", "text"), <<>>)
    IN  IF sibling_text # <<>> THEN sibling_class \o <<":">> \o sibling_text
        ELSE IF sibling_id # <<>> THEN sibling_class \o <<":">> \o sibling_id
        ELSE sibling_class

_get_sibling_context(tree, i) ==
    LET parent == element_parents(tree, i)
        IsSibling(j) == tree[j].parent = parent /\ j # i
        siblings == SelectSeq([j \in 1..Len(tree) |-> j], IsSibling)
    IN  IF parent = 0 THEN <<>>
        ELSE join([k \in 1..Len(siblings) |-> SiblingSummary(tree[siblings[k]])])

_extract_app_context ==
    <<"c","o","m",".","e","x","a","m","p","l","e",".","a","p","p",".",
      "M","a","i","n","A","c","t","i","v","i","t","y">>

\* the value of a boolean attribute: get(name, default).lower() == 'true'
IsTrue(value) == lower(value) = <<"t","r","u","e">>

_parse_element(tree, i) ==
    IF ~_is_ui_element(tree[i]) THEN None
    ELSE [kind |-> "UIElement",
          val |-> [UIElement(
                      _normalize_resource_id(
                          get(tree[i], QName("android", "id"), <<>>)),
                      tree[i].tag,
                      get(tree[i], QName("android", "text"), <<>>),
                      get(tree[i], QName("android", "contentDescription"), <<>>),
                      IsTrue(get(tree[i], QName("android", "clickable"),
                                 <<"f","a","l","s","e">>)),
                      _get_parent_context(tree, i),
                      _get_sibling_context(tree, i),
                      _extract_app_context)
                   EXCEPT !.focusable =
                              IsTrue(get(tree[i], QName("android", "focusable"),
                                         <<"f","a","l","s","e">>)),
                          !.enabled =
                              IsTrue(get(tree[i], QName("android", "enabled"),
                                         <<"t","r","u","e">>))]]

----------------------------------------------------------------------------
(* CompleteAccessibilitySystem: per-element result and report              *)

DESC_MISSING == <<"<contentDescription sokseong-i eopsseumnida>">>
DESC_IMPROVEMENT == <<"<deo myeonghwakhan jeopgeunseong tekseuteu>">>
DESC_CLICKABLE == <<"<keullik ganeunghan yoso-e seolmyeong-i piryo>">>
CURRENT_NONE == <<"<eopseum>">>

Suggestion(type, description, current, suggested, confidence, priority) ==
    [type |-> type, description |-> description, current |-> current,
     suggested |-> suggested, confidence |-> confidence, priority |-> priority]

\* _generate_suggestions with its third test chained to the first two by elif
GenerateSuggestionsElif(e, alt_text, confidence_score) ==
    IF e.content_description = <<>>
    THEN <<Suggestion("missing_content_description", DESC_MISSING,
                      CURRENT_NONE, alt_text, confidence_score,
                      IF e.clickable THEN "high" ELSE "medium")>>
    ELSE IF e.content_description # <<>> /\ confidence_score > 70
    THEN <<Suggestion("improvement_suggestion", DESC_IMPROVEMENT,
                      e.content_description, alt_text, confidence_score,
                      "medium")>>
    ELSE IF e.clickable /\ e.content_description = <<>>
    THEN <<Suggestion("clickable_without_description", DESC_CLICKABLE,
                      CURRENT_NONE, alt_text, confidence_score, "high")>>
    ELSE <<>>

\* _generate_suggestions giving a missing description the priority of its
\* element
GenerateSuggestionsElementPriority(e, alt_text, confidence_score) ==
    (IF e.content_description = <<>>
     THEN <<Suggestion("missing_content_description", DESC_MISSING,
                       CURRENT_NONE, alt_text, confidence_score,
                       IF e.clickable /\ confidence_score > 80 THEN "high"
                       ELSE IF e.clickable \/ confidence_score > 60
                       THEN "medium" ELSE "low")>>
     ELSE IF e.content_description # <<>> /\ confidence_score > 70
     THEN <<Suggestion("improvement_suggestion", DESC_IMPROVEMENT,
                       e.content_description, alt_text, confidence_score,
                       "medium")>>
     ELSE <<>>)
    \o
    (IF e.clickable /\ e.content_description = <<>>
     THEN <<Suggestion("clickable_without_description", DESC_CLICKABLE,
                       CURRENT_NONE, alt_text, confidence_score, "high")>>
     ELSE <<>>)

\* _generate_suggestions with >= for the improvement threshold
GenerateSuggestionsInclusive(e, alt_text, confidence_score) ==
    (IF e.content_description = <<>>
     THEN <<Suggestion("missing_content_description", DESC_MISSING,
                       CURRENT_NONE, alt_text, confidence_score,
                       IF e.clickable THEN "high" ELSE "medium")>>
     ELSE IF e.content_description # <<>> /\ confidence_score >= 70
     THEN <<Suggestion("improvement_suggestion", DESC_IMPROVEMENT,
                       e.content_description, alt_text, confidence_score,
                       "medium")>>
     ELSE <<>>)
    \o
    (IF e.clickable /\ e.content_description = <<>>
     THEN <<Suggestion("clickable_without_description", DESC_CLICKABLE,
                       CURRENT_NONE, alt_text, confidence_score, "high")>>
     ELSE <<>>)

_generate_suggestions(e, alt_text, confidence_score) ==
    (IF e.content_description = <<>>
     THEN <<Suggestion("missing_content_description", DESC_MISSING,
                       CURRENT_NONE, alt_text, confidence_score,
                       IF e.clickable THEN "high" ELSE "medium")>>
     ELSE IF e.content_description # <<>> /\ confidence_score > 70
     THEN <<Suggestion("improvement_suggestion", DESC_IMPROVEMENT,
                       e.content_description, alt_text, confidence_score,
                       "medium")>>
     ELSE <<>>)
    \o
    (IF e.clickable /\ e.content_description = <<>>
     THEN <<Suggestion("clickable_without_description", DESC_CLICKABLE,
                       CURRENT_NONE, alt_text, confidence_score, "high")>>
     ELSE <<>>)

\* _calculate_priority with >= for its first threshold
CalculatePriorityInclusive(e, confidence_score) ==
    IF e.clickable /\ confidence_score >= 80 THEN "high"
    ELSE IF e.clickable \/ confidence_score > 60 THEN "medium"
    ELSE "low"

_calculate_priority(e, confidence_score) ==
    IF e.clickable /\ confidence_score > 80 THEN "high"
    ELSE IF e.clickable \/ confidence_score > 60 THEN "medium"
    ELSE "low"

\* the result dict, or the IndexError that generate_alt_text raised
_generate_accessibility_result(e, t) ==
    LET alt_text == generate_alt_text(e, t)
        alternatives == get_alternatives(e, t)
        confidence == get_matching_confidence(e, t)
    IN  IF alt_text.kind = "IndexError" THEN IndexError
        ELSE [kind |-> "dict",
              val |-> [resource_id |-> e.resource_id,
                       class_name |-> e.class_name,
                       text |-> e.text,
                       current_content_description |-> e.content_description,
                       generated_alt_text |-> alt_text.val,
                       alternatives |-> alternatives,
                       confidence_type |-> confidence.tier,
                       confidence_score |-> confidence.score,
                       clickable |-> e.clickable,
                       focusable |-> e.focusable,
                       enabled |-> e.enabled,
                       suggestions |-> _generate_suggestions(
                                           e, alt_text.val, confidence.score),
                       priority |-> _calculate_priority(e, confidence.score)]]

\* analyze_xml_layout collecting the nodes children first (the last node of the
\* document first)
ParseElementsReversed(tree) ==
    LET IsUi(i) == _parse_element(tree, i).kind # "None"
        ui == SelectSeq([i \in 1..Len(tree) |-> i], IsUi)
    IN  [k \in 1..Len(ui) |-> _parse_element(tree, ui[Len(ui) + 1 - k]).val]

\* the ui_elements analyze_xml_layout collects over root.iter(): the
\* UIElement of every node _parse_element does not skip, in document order
ParseElements(tree) ==
    LET IsUi(i) == _parse_element(tree, i).kind # "None"
        ui == SelectSeq([i \in 1..Len(tree) |-> i], IsUi)
    IN  [k \in 1..Len(ui) |-> _parse_element(tree, ui[k]).val]

\* the body of analyze_xml_layout's try block after a successful parse
AnalyzeTree(tree, t) ==
    LET ui_elements == ParseElements(tree)
        res == [k \in 1..Len(ui_elements) |->
                   _generate_accessibility_result(ui_elements[k], t)]
    IN  IF \E k \in 1..Len(res) : res[k].kind = "IndexError"
        THEN [kind |-> "IndexError", val |-> <<>>]
        ELSE List([k \in 1..Len(res) |-> res[k].val])

\* analyze_xml_layout without its except clause
AnalyzeXmlLayoutUncaught(xml_content, t) ==
    LET root == fromstring(xml_content)
    IN  IF root.kind = "ParseError" THEN ParseError
        ELSE AnalyzeTree(root.val, t)

analyze_xml_layout(xml_content, t) ==
    LET root == fromstring(xml_content)
    IN  IF root.kind = "ParseError" THEN List(<<>>)
        ELSE AnalyzeTree(root.val, t)

\* numbers of the report that need not be whole: a fraction in lowest terms
RECURSIVE GCD(_, _)
GCD(a, b) == IF b = 0 THEN a ELSE GCD(b, a % b)

Fraction(num, den) ==
    LET g == GCD(num, den) IN [num |-> num \div g, den |-> den \div g]

Zero == [num |-> 0, den |-> 1]

\* the entry of one suggestion in a bucket of the report
BucketEntry(result, suggestion) ==
    [resource_id |-> result.resource_id, type |-> suggestion.type,
     suggested |-> suggestion.suggested, confidence |-> suggestion.confidence]

\* a bucket taking at most one suggestion from each result
RECURSIVE BucketOnePerResult(_, _)
BucketOnePerResult(rs, bucket) ==
    IF rs = <<>> THEN <<>>
    ELSE LET InBucket(s) ==
                 IF bucket = "low" THEN s.priority \notin {"high", "medium"}
                 ELSE s.priority = bucket
             mine == SelectSeq(rs[1].suggestions, InBucket)
         IN  (IF mine = <<>> THEN <<>> ELSE <<BucketEntry(rs[1], mine[1])>>)
             \o BucketOnePerResult(Tail(rs), bucket)

\* the entries of the suggestions of one priority, result by result
RECURSIVE Bucket(_, _)
Bucket(rs, bucket) ==
    IF rs = <<>> THEN <<>>
    ELSE LET InBucket(s) ==
                 IF bucket = "low" THEN s.priority \notin {"high", "medium"}
                 ELSE s.priority = bucket
             mine == SelectSeq(rs[1].suggestions, InBucket)
         IN  [k \in 1..Len(mine) |-> BucketEntry(rs[1], mine[k])]
             \o Bucket(Tail(rs), bucket)

ReportDict(rs, coverage) ==
    LET HasDescription(r) == r.current_content_description # <<>>
        total_elements == Len(rs)
        elements_with_content_description == Len(SelectSeq(rs, HasDescription))
        high == Bucket(rs, "high")
        medium == Bucket(rs, "medium")
        low == Bucket(rs, "low")
    IN  [kind |-> "dict",
         val |-> [summary |->
                     [total_elements |-> total_elements,
                      elements_with_content_description |->
                          elements_with_content_description,
                      elements_without_content_description |->
                          total_elements - elements_with_content_description,
                      coverage_percentage |-> coverage],
                  suggestions |->
                     [high_priority |-> high, medium_priority |-> medium,
                      low_priority |-> low],
                  statistics |->
                     [high_priority_count |-> Len(high),
                      medium_priority_count |-> Len(medium),
                      low_priority_count |-> Len(low)]]]

ZeroDivisionError == [kind |-> "ZeroDivisionError", val |-> <<>>]

\* generate_report dividing by total_elements without testing it
GenerateReportUnguarded(rs) ==
    LET HasDescription(r) == r.current_content_description # <<>>
    IN  IF Len(rs) = 0 THEN ZeroDivisionError
        ELSE ReportDict(rs, Fraction(Len(SelectSeq(rs, HasDescription)) * 100,
                                     Len(rs)))

generate_report(rs) ==
    LET HasDescription(r) == r.current_content_description # <<>>
    IN  ReportDict(rs, IF Len(rs) > 0
                       THEN Fraction(Len(SelectSeq(rs, HasDescription)) * 100,
                                     Len(rs))
                       ELSE Zero)

NoReport == [kind |-> "NotCalled", val |-> <<>>]

----------------------------------------------------------------------------
(* The engine, asked about one element                                     *)

NoElement == UIElement(<<>>, <<>>, <<>>, <<>>, FALSE, <<>>, <<>>, <<>>)
NoConfidence == Confidence("NotCalled", 0)

\* an engine constructed over rule files that all loaded, and the UIElement
\* its caller built
Init ==
    /\ tables \in RuleTables
    /\ files = ValidFiles(tables)
    /\ loaded = tables
    /\ pc = "ready"
    /\ element \in Elements
    /\ label = NotCalled
    /\ alts = NoList
    /\ conf = NoConfidence
    /\ markup = <<>>
    /\ results = NoList
    /\ report = NoReport
    /\ parsed = <<>>
    /\ arg = <<>>
    /\ ret = NotCalled

GenerateAltText ==
    /\ pc = "ready"
    /\ label' = generate_alt_text(element, tables)
    /\ UNCHANGED <<parsed, arg, ret, files, tables, loaded, pc, element, alts, conf,
                   markup, results, report>>

\* get_alternatives starting from the table's own list instead of a fresh one,
\* so that extend() grows resource_rules[resource_id]
GetAlternativesAliased ==
    /\ pc = "ready"
    /\ alts' = List(get_alternatives(element, tables))
    /\ tables' =
         IF element.resource_id # <<>>
            /\ HasKey(tables.resource_rules, element.resource_id)
         THEN [tables EXCEPT !.resource_rules =
                  [i \in 1..Len(@) |->
                      IF @[i].key = element.resource_id
                      THEN [@[i] EXCEPT !.val =
                               @ \o get_alternatives(
                                   [element EXCEPT !.resource_id = <<>>], tables)]
                      ELSE @[i]]]
         ELSE tables
    /\ UNCHANGED <<parsed, arg, ret, files, loaded, pc, element, label, conf,
                   markup, results, report>>

GetAlternatives ==
    /\ pc = "ready"
    /\ alts' = List(get_alternatives(element, tables))
    /\ UNCHANGED <<parsed, arg, ret, files, tables, loaded, pc, element, label, conf,
                   markup, results, report>>

GetMatchingConfidence ==
    /\ pc = "ready"
    /\ conf' = get_matching_confidence(element, tables)
    /\ UNCHANGED <<parsed, arg, ret, files, tables, loaded, pc, element, label, alts,
                   markup, results, report>>

\* label and confidence of one element, in either order
Next ==
    \/ GenerateAltText
    \/ GetMatchingConfidence

Spec == Init /\ [][Next]_vars

----------------------------------------------------------------------------
(* Properties of the label and the confidence (specification Spec)         *)

HasNonSpace(s) == \E i \in 1..Len(s) : s[i] # " "

LabelCalled == label # NotCalled
ConfCalled == conf # NoConfidence

\* C1: an element whose content_description holds a character that is not
\* whitespace gets that very string (untrimmed) as its label, and confidence
\* tier content_description with score 1.0, whatever the tables hold.
C1_ExplicitDescription ==
    HasNonSpace(element.content_description) =>
        /\ LabelCalled => label = Str(element.content_description)
        /\ ConfCalled => conf = Confidence("content_description", 100)

\* an untrimmed description was returned as it is, past a matching resource id
C1_Witness ==
    /\ element.content_description = <<" ", "x">>
    /\ HasKey(tables.resource_rules, element.resource_id)
    /\ label = Str(<<" ", "x">>)
    /\ conf = Confidence("content_description", 100)

\* the element has no description and a resource id that is a key of
\* resource_rules
ExactResourceId ==
    /\ element.content_description = <<>>
    /\ element.resource_id # <<>>
    /\ HasKey(tables.resource_rules, element.resource_id)

FirstCandidate == Lookup(tables.resource_rules, element.resource_id)[1]

\* C2 as the claim states it: with an empty description and a resource id
\* that is an exact key, the label is the first element of the array stored
\* under the key and the confidence is resource_id_exact with score 0.95.
C2_Original ==
    (ExactResourceId /\ Lookup(tables.resource_rules, element.resource_id) # <<>>) =>
        /\ LabelCalled => label = Str(FirstCandidate)
        /\ ConfCalled => conf = Confidence("resource_id_exact", 95)

\* C2 amended: with an empty description and a resource id that is an exact
\* key, the confidence is resource_id_exact with score 0.95; and the label is
\* the first element of the array under the key when that element is a
\* non-empty string.
C2_ExactResourceId ==
    ExactResourceId =>
        /\ ConfCalled => conf = Confidence("resource_id_exact", 95)
        /\ (/\ LabelCalled
            /\ Lookup(tables.resource_rules, element.resource_id) # <<>>
            /\ FirstCandidate # <<>>) => label = Str(FirstCandidate)

\* the exact key won against an app rule, a text pattern and a class rule that
\* all apply or could
C2_Witness ==
    /\ ExactResourceId
    /\ label = Str(<<"<r1>">>)
    /\ conf = Confidence("resource_id_exact", 95)
    /\ element.app_context # <<>>
    /\ tables.app_specific_rules # <<>>
    /\ element.class_name # <<>>
    /\ element.text # <<>>

\* the nine tiers, in the order of precedence
TierOrder ==
    <<"content_description", "resource_id_exact", "resource_id_partial",
      "app_context", "text_pattern", "class_name_exact", "class_name_simple",
      "context_inference", "default">>

\* the scores the claim gives them, in hundredths
ClaimedScore == <<100, 95, 80, 70, 60, 50, 40, 30, 10>>

\* the check of tier i applies to element e under tables t (an empty field
\* is an absent one)
Applies(i, e, t) ==
    CASE i = 1 -> e.content_description # <<>>
      [] i = 2 -> e.resource_id # <<>> /\ HasKey(t.resource_rules, e.resource_id)
      [] i = 3 -> /\ e.resource_id # <<>>
                  /\ \E k \in 1..Len(t.resource_rules) :
                         Contains(lower(t.resource_rules[k].key),
                                  lower(e.resource_id))
      [] i = 4 -> /\ e.app_context # <<>>
                  /\ \E k \in 1..Len(t.app_specific_rules) :
                         Contains(t.app_specific_rules[k].key, e.app_context)
      [] i = 5 -> e.text # <<>> /\ Truthy(_match_text_pattern(e.text, t))
      [] i = 6 -> e.class_name # <<>> /\ HasKey(t.class_rules, e.class_name)
      [] i = 7 -> /\ e.class_name # <<>>
                  /\ HasKey(t.class_rules, LastSegment(e.class_name))
      [] i = 8 -> Truthy(_infer_from_context(e, t))
      [] OTHER -> TRUE

\* C3: get_matching_confidence returns the tier, with its score, of the first
\* check that applies in the order content_description, resource-id exact,
\* resource-id substring, app-context, text-pattern, class-name exact,
\* class-name simple, context inference, default; the label plays no part.
C3_FirstApplicableTier ==
    ConfCalled =>
        \E i \in 1..Len(TierOrder) :
            /\ conf = Confidence(TierOrder[i], ClaimedScore[i])
            /\ Applies(i, element, tables)
            /\ \A j \in 1..(i - 1) : ~Applies(j, element, tables)

\* a partial resource id won while the app context applied too
C3_Witness ==
    /\ conf = Confidence("resource_id_partial", 80)
    /\ Applies(4, element, tables)
    /\ LabelCalled

\* the score the engine attaches to a tier
ScoreOfTier(tier) ==
    CASE tier = "content_description" -> SCORE_CONTENT_DESCRIPTION
      [] tier = "resource_id_exact" -> SCORE_RESOURCE_ID_EXACT
      [] tier = "resource_id_partial" -> SCORE_RESOURCE_ID_PARTIAL
      [] tier = "app_context" -> SCORE_APP_CONTEXT
      [] tier = "text_pattern" -> SCORE_TEXT_PATTERN
      [] tier = "class_name_exact" -> SCORE_CLASS_NAME_EXACT
      [] tier = "class_name_simple" -> SCORE_CLASS_NAME_SIMPLE
      [] tier = "context_inference" -> SCORE_CONTEXT_INFERENCE
      [] OTHER -> SCORE_DEFAULT

\* C4: the score returned with a tier lies in [0, 1], no earlier tier of the
\* precedence order has a lower score and no later tier a higher one.
C4_ScoresMonotone ==
    ConfCalled =>
        /\ conf.score \in 0..100
        /\ \E i \in 1..Len(TierOrder) :
               /\ conf.tier = TierOrder[i]
               /\ \A j \in 1..(i - 1) : ScoreOfTier(TierOrder[j]) >= conf.score
               /\ \A j \in (i + 1)..Len(TierOrder) :
                      ScoreOfTier(TierOrder[j]) <= conf.score

\* a tier in the middle of the order was returned
C4_Witness ==
    /\ conf.tier = "resource_id_partial"
    /\ conf.score = 80

----------------------------------------------------------------------------
(* The engine's three calls on one element, in any order (specification    *)
(* SpecAlternatives): rule files with lists long enough to overflow the    *)
(* five alternatives                                                       *)

AltResourceKeys == {<<"a","b">>, <<"b">>}
AltResourceLists == {<<>>, <<<<"<k1>">>, <<"<k2>">>, <<"<k3>">>>>,
                     <<<<"<k1>">>, <<"<k1>">>, <<"<k2>">>>>}
AltClassKeys == {<<"a",".","B","t">>, <<"B","t">>}
AltClassLists == {<<<<"<k4>">>, <<"<k5>">>, <<"<k6>">>>>,
                  <<<<"<k2>">>, <<"<k4>">>>>}
AltAppKeys == {<<"a","p","p">>, <<"p">>, <<"q">>}
AltAppLists == {<<>>, <<<<"<k3>">>, <<"<k7>">>>>,
                <<<<"<k5>">>, <<"<k6>">>, <<"<k7>">>>>}

AlternativeTables ==
    UNION { UNION {
      { [EmptyTables EXCEPT !.resource_rules = r, !.class_rules = c,
                            !.app_specific_rules = a] :
          r \in Dicts(AltResourceKeys, AltResourceLists, nr),
          c \in Dicts(AltClassKeys, AltClassLists, nc),
          a \in UNION {Dicts(AltAppKeys, AltAppLists, na) :
                          na \in 0..(MaxEntries - nr - nc)} }
      : nc \in 0..(MaxEntries - nr) }
      : nr \in 0..MaxEntries }

AlternativeElements ==
    {UIElement(id, cn, <<>>, cd, FALSE, <<>>, <<>>, ap) :
        id \in ResourceIds, cn \in ClassNames, cd \in {<<>>, <<"x">>},
        ap \in AppContexts}

InitAlternatives ==
    /\ tables \in AlternativeTables
    /\ files = ValidFiles(tables)
    /\ loaded = tables
    /\ pc = "ready"
    /\ element \in AlternativeElements
    /\ label = NotCalled
    /\ alts = NoList
    /\ conf = NoConfidence
    /\ markup = <<>>
    /\ results = NoList
    /\ report = NoReport
    /\ parsed = <<>>
    /\ arg = <<>>
    /\ ret = NotCalled

NextAlternatives ==
    \/ GenerateAltText
    \/ GetAlternatives
    \/ GetMatchingConfidence

SpecAlternatives == InitAlternatives /\ [][NextAlternatives]_vars

AltsCalled == alts # NoList

\* the lists the claim concatenates: resource_rules[resource_id] for the exact
\* key, class_rules[class_name] for the exact full name, then the list of
\* every app rule whose key is inside app_context, in table order
RECURSIVE AppSources(_, _)
AppSources(d, app_context) ==
    IF d = <<>> THEN <<>>
    ELSE (IF Contains(d[1].key, app_context) THEN d[1].val ELSE <<>>)
         \o AppSources(Tail(d), app_context)

Sources(e, t) ==
    (IF e.resource_id # <<>> /\ HasKey(t.resource_rules, e.resource_id)
     THEN Lookup(t.resource_rules, e.resource_id) ELSE <<>>)
    \o (IF e.class_name # <<>> /\ HasKey(t.class_rules, e.class_name)
        THEN Lookup(t.class_rules, e.class_name) ELSE <<>>)
    \o (IF e.app_context # <<>>
        THEN AppSources(t.app_specific_rules, e.app_context) ELSE <<>>)

\* where x is first seen in c
FirstSeen(c, x) == CHOOSE i \in 1..Len(c) : c[i] = x /\ \A j \in 1..(i - 1) : c[j] # x

Values(c) == {c[i] : i \in 1..Len(c)}

\* u is the first n distinct entries of c, in first-seen order
IsFirstDistinct(u, c, n) ==
    /\ Len(u) = IF Cardinality(Values(c)) < n THEN Cardinality(Values(c)) ELSE n
    /\ \A i \in 1..Len(u) : u[i] \in Values(c)
    /\ \A i, j \in 1..Len(u) : i < j => FirstSeen(c, u[i]) < FirstSeen(c, u[j])
    /\ \A x \in Values(c) \ Values(u) :
           \A i \in 1..Len(u) : FirstSeen(c, u[i]) < FirstSeen(c, x)

C5_WitnessDuplicates ==
    /\ AltsCalled
    /\ Len(alts.val) = 5
    /\ Len(Sources(element, tables)) > Cardinality(Values(Sources(element, tables)))

\* C7: no call changes a rule table (the tables stay what load_rules left),
\* and a call repeated on the same element returns what it returned before,
\* whatever was called in between.
C7_Pure ==
    /\ [](tables = loaded)
    /\ [][/\ LabelCalled => label' = label
          /\ AltsCalled => alts' = alts
          /\ ConfCalled => conf' = conf]_vars

\* all three calls returned, the resource list and the class list both read
C7_Witness ==
    /\ LabelCalled /\ AltsCalled /\ ConfCalled
    /\ tables = loaded
    /\ HasKey(tables.resource_rules, element.resource_id)
    /\ Len(alts.val) > Len(Lookup(tables.resource_rules, element.resource_id))

----------------------------------------------------------------------------
(* Construction of the engine over any rules_dir (specification SpecLoad)  *)

\* what one rule file may be: missing, not JSON, or a JSON object of one entry
FileStates(K, V) ==
    {File("absent", <<>>), File("corrupt", <<>>)}
    \cup {File("valid", d) : d \in Dicts(K, V, 1)}

FileSystems ==
    [resource_rules : FileStates(ResourceKeys, ResourceLists),
     class_rules : FileStates(ClassKeys, ClassLists),
     text_pattern_rules : FileStates(Categories, PatternLists),
     app_specific_rules : FileStates(AppKeys, AppLists),
     action_rules : FileStates(ActionWords, ActionCounts)]

\* __init__ has set the six tables to {} and is about to call load_rules
InitLoad ==
    /\ files \in FileSystems
    /\ tables = EmptyTables
    /\ loaded = EmptyTables
    /\ pc = "new"
    /\ element = NoElement
    /\ label = NotCalled
    /\ alts = NoList
    /\ conf = NoConfidence
    /\ markup = <<>>
    /\ results = NoList
    /\ report = NoReport
    /\ parsed = <<>>
    /\ arg = <<>>
    /\ ret = NotCalled

\* self.load_rules(), which ends __init__
LoadRules ==
    /\ pc = "new"
    /\ tables' = load_rules(files, tables)
    /\ loaded' = tables'
    /\ pc' = "ready"
    /\ UNCHANGED <<parsed, arg, ret, files, element, label, alts, conf, markup, results, report>>

NextLoad == LoadRules

SpecLoad == InitLoad /\ [][NextLoad]_vars

\* C6: loading degrades table by table: once the engine is constructed, the
\* table of a file that is absent or corrupt is empty and the table of every
\* file that is present and valid holds that file's content.
C6_PerTableDegrade ==
    pc = "ready" =>
        \A i \in 1..Len(LoadOrder) :
            tables[LoadOrder[i]] =
                IF files[LoadOrder[i]].state = "valid"
                THEN files[LoadOrder[i]].content
                ELSE <<>>

----------------------------------------------------------------------------
(* A layout analysed and reported (specification SpecSystem)               *)

MaxNodes == 3

\* the nodes a document is written from
NodeKinds ==
    {Node(<<"L","i","n","e","a","r","L","a","y","o","u","t">>, <<>>),
     Node(<<"B","u","t","t","o","n">>,
          <<WrittenAttr("android", "id", <<"@","+","i","d","/","a","b">>),
            WrittenAttr("android", "clickable", <<"t","r","u","e">>)>>),
     Node(<<"I","m","a","g","e","V","i","e","w">>,
          <<WrittenAttr("android", "contentDescription", <<"x">>)>>),
     Node(<<"T","e","x","t","V","i","e","w">>,
          <<WrittenAttr("", "text", <<"G","o">>)>>),
     Node(<<"a","n","d","r","o","i","d",".","w","i","d","g","e","t",".",
            "E","d","i","t","T","e","x","t">>, <<>>)}

RECURSIVE AncestorsOrSelf(_, _)
AncestorsOrSelf(par, i) ==
    IF i = 0 THEN {} ELSE {i} \cup AncestorsOrSelf(par, par[i])

\* parent indices of n nodes written in document order: one root, and every
\* later node opened inside the node before it or inside one of its ancestors
Shapes(n) ==
    {par \in [1..n -> 0..(n - 1)] :
        /\ par[1] = 0
        /\ \A i \in 2..n : par[i] \in AncestorsOrSelf(par, i - 1)}

Trees ==
    UNION {{[i \in 1..n |-> [kinds[i] EXCEPT !.parent = par[i]]] :
               kinds \in [1..n -> NodeKinds], par \in Shapes(n)} :
           n \in 1..MaxNodes}

Markups == {Markup(s, x, nodes) : s \in BOOLEAN, x \in BOOLEAN, nodes \in Trees}

SystemTables == TablesUpTo(1)

\* a system constructed over rule files that all loaded, and the xml_content
\* its caller holds
InitSystem ==
    /\ tables \in SystemTables
    /\ files = ValidFiles(tables)
    /\ loaded = tables
    /\ pc = "ready"
    /\ element = NoElement
    /\ label = NotCalled
    /\ alts = NoList
    /\ conf = NoConfidence
    /\ markup \in Markups
    /\ results = NoList
    /\ report = NoReport
    /\ parsed = <<>>
    /\ arg = <<>>
    /\ ret = NotCalled

AnalyzeXmlLayout ==
    /\ pc = "ready"
    /\ results.kind = "NotCalled"
    /\ results' = analyze_xml_layout(markup, tables)
    /\ parsed' = IF fromstring(markup).kind = "ParseError" THEN <<>>
                 ELSE ParseElements(fromstring(markup).val)
    /\ UNCHANGED <<arg, ret, files, tables, loaded, pc, element, label, alts, conf,
                   markup, report>>

GenerateReport ==
    /\ pc = "ready"
    /\ results.kind = "list"
    /\ report.kind = "NotCalled"
    /\ report' = generate_report(results.val)
    /\ UNCHANGED <<parsed, arg, ret, files, tables, loaded, pc, element, label, alts, conf,
                   markup, results>>

NextSystem ==
    \/ AnalyzeXmlLayout
    \/ GenerateReport

SpecSystem == InitSystem /\ [][NextSystem]_vars

\* C8: for markup that is not well-formed, analyze_xml_layout returns the
\* empty list (it returns, no exception reaches the caller), and a report
\* generated from that list has total_elements = 0.
C8_MalformedMarkup ==
    (~WellFormed(markup) /\ results.kind # "NotCalled") =>
        /\ results = List(<<>>)
        /\ report.kind # "NotCalled" =>
              /\ report.kind = "dict"
              /\ report.val.summary.total_elements = 0

\* a document of three nodes, two of them widgets, whose tags do not balance
\* was analysed to the empty list and reported
C8_Witness ==
    /\ ~markup.syntax
    /\ Len(markup.nodes) = 3
    /\ \E i, j \in 1..3 :
          /\ i # j
          /\ LastSegment(markup.nodes[i].tag) \in ui_classes
          /\ LastSegment(markup.nodes[j].tag) \in ui_classes
    /\ results = List(<<>>)
    /\ report.kind = "dict"
    /\ report.val.summary.total_elements = 0

----------------------------------------------------------------------------
(* Results made element by element and reported (specification SpecResult) *)

MaxResults == 3

ResultElements ==
    {UIElement(id, <<"a",".","B","t">>, <<>>, cd, cl, <<>>, <<>>,
               <<"a","p","p">>) :
        id \in ResourceIds, cd \in {<<>>, <<" ">>, <<"x">>}, cl \in BOOLEAN}

ResultTables == TablesUpTo(1)

\* a system constructed over rule files that all loaded, and the empty list
\* its caller collects results in
InitResult ==
    /\ tables \in ResultTables
    /\ files = ValidFiles(tables)
    /\ loaded = tables
    /\ pc = "ready"
    /\ element = NoElement
    /\ label = NotCalled
    /\ alts = NoList
    /\ conf = NoConfidence
    /\ markup = <<>>
    /\ results = List(<<>>)
    /\ report = NoReport
    /\ parsed = <<>>
    /\ arg = <<>>
    /\ ret = NotCalled

\* results.append(self._generate_accessibility_result(element)), the
\* IndexError of the call ending the collection
GenerateAccessibilityResult ==
    /\ pc = "ready"
    /\ results.kind = "list"
    /\ report.kind = "NotCalled"
    /\ Len(results.val) < MaxResults
    /\ \E e \in ResultElements :
          /\ element' = e
          /\ results' =
               LET result == _generate_accessibility_result(e, tables)
               IN  IF result.kind = "IndexError"
                   THEN [kind |-> "IndexError", val |-> <<>>]
                   ELSE List(Append(results.val, result.val))
    /\ UNCHANGED <<parsed, arg, ret, files, tables, loaded, pc, label, alts, conf,
                   markup, report>>

NextResult ==
    \/ GenerateAccessibilityResult
    \/ GenerateReport

SpecResult == InitResult /\ [][NextResult]_vars

Reported == report.kind # "NotCalled"

\* C9: the report of an empty result list has total_elements = 0 and
\* coverage_percentage exactly 0, and is a report (no division error); the
\* report of a non-empty list has coverage_percentage equal to
\* elements_with_content_description / total_elements * 100, these being the
\* length of the list and the number of its results with a description.
C9_Coverage ==
    Reported =>
        /\ report.kind = "dict"
        /\ LET summary == report.val.summary
               HasDescription(r) == r.current_content_description # <<>>
           IN  /\ summary.total_elements = Len(results.val)
               /\ summary.elements_with_content_description =
                      Len(SelectSeq(results.val, HasDescription))
               /\ results.val = <<>> => summary.coverage_percentage = Zero
               /\ results.val # <<>> =>
                      summary.coverage_percentage.num * summary.total_elements
                      = summary.elements_with_content_description * 100
                        * summary.coverage_percentage.den

\* the empty list was reported
C9_Witness ==
    /\ results = List(<<>>)
    /\ report.kind = "dict"
    /\ report.val.summary.total_elements = 0
    /\ report.val.summary.coverage_percentage = Zero

\* a list of three results, one with a description, was reported: 33.3...%
C9_WitnessThird ==
    /\ Len(results.val) = 3
    /\ report.kind = "dict"
    /\ report.val.summary.coverage_percentage = [num |-> 100, den |-> 3]

\* the result is of a clickable element without description whose resource id
\* is a key of resource_rules
ClickableExactId(r) ==
    /\ r.clickable
    /\ r.current_content_description = <<>>
    /\ r.resource_id # <<>>
    /\ HasKey(tables.resource_rules, r.resource_id)

HasHighClickableSuggestion(r) ==
    \E k \in 1..Len(r.suggestions) :
        /\ r.suggestions[k].type = "clickable_without_description"
        /\ r.suggestions[k].priority = "high"

\* C10 as the claim states it: the result of a clickable element without
\* description whose resource id is an exact key has the first candidate as
\* its label, tier resource_id_exact, score 0.95, a suggestion
\* clickable_without_description of priority high, and priority high.
C10_Original ==
    \A i \in 1..Len(results.val) :
        ClickableExactId(results.val[i]) =>
            /\ results.val[i].generated_alt_text =
                   Lookup(tables.resource_rules, results.val[i].resource_id)[1]
            /\ results.val[i].confidence_type = "resource_id_exact"
            /\ results.val[i].confidence_score = 95
            /\ HasHighClickableSuggestion(results.val[i])
            /\ results.val[i].priority = "high"

\* C10 amended: the result of a clickable element without description whose
\* resource id is an exact key has tier resource_id_exact, score 0.95, a
\* suggestion clickable_without_description of priority high, and priority
\* high; its label is the first candidate when that candidate is a non-empty
\* string.
C10_ClickableExactId ==
    \A i \in 1..Len(results.val) :
        ClickableExactId(results.val[i]) =>
            /\ Lookup(tables.resource_rules, results.val[i].resource_id)[1] # <<>>
                  => results.val[i].generated_alt_text =
                       Lookup(tables.resource_rules, results.val[i].resource_id)[1]
            /\ results.val[i].confidence_type = "resource_id_exact"
            /\ results.val[i].confidence_score = 95
            /\ HasHighClickableSuggestion(results.val[i])
            /\ results.val[i].priority = "high"

\* the back button of the scenario: two candidates under the key, the first
\* one the label, both suggestions made
C10_Witness ==
    \E i \in 1..Len(results.val) :
        /\ ClickableExactId(results.val[i])
        /\ Lookup(tables.resource_rules, results.val[i].resource_id)
               = <<<<"<r1>">>, <<"<r2>">>>>
        /\ results.val[i].generated_alt_text = <<"<r1>">>
        /\ results.val[i].confidence_score = 95
        /\ Len(results.val[i].suggestions) = 2
        /\ results.val[i].priority = "high"

----------------------------------------------------------------------------
(* Elements known by their class (specification SpecClass)                 *)

WidgetClassNames ==
    {<<"a",".","B","t">>,
     <<"B","u","t","t","o","n">>,
     <<"I","m","a","g","e","B","u","t","t","o","n">>,
     <<"P","r","o","g","r","e","s","s","B","a","r">>}

ClassElements ==
    {UIElement(<<>>, cn, tx, <<>>, FALSE, pa, <<>>, <<>>) :
        cn \in WidgetClassNames, tx \in Texts, pa \in ParentContexts}

\* an engine constructed over rule files that all loaded, and a UIElement
\* without description, resource id or app context
InitClass ==
    /\ tables \in RuleTables
    /\ files = ValidFiles(tables)
    /\ loaded = tables
    /\ pc = "ready"
    /\ element \in ClassElements
    /\ label = NotCalled
    /\ alts = NoList
    /\ conf = NoConfidence
    /\ markup = <<>>
    /\ results = NoList
    /\ report = NoReport
    /\ parsed = <<>>
    /\ arg = <<>>
    /\ ret = NotCalled

NextClass ==
    \/ GenerateAltText
    \/ GetMatchingConfidence

SpecClass == InitClass /\ [][NextClass]_vars

\* every field of the element but class_name is empty (or at its default)
OnlyClassName(e) ==
    /\ e.class_name # <<>>
    /\ e.resource_id = <<>> /\ e.text = <<>> /\ e.content_description = <<>>
    /\ e.parent_context = <<>> /\ e.sibling_context = <<>>
    /\ e.app_context = <<>>
    /\ ~e.clickable /\ ~e.focusable /\ e.enabled

\* no key of class_rules is found in the class name, and no pattern and no
\* action word in the (blank) context
NoTableHit(e, t) ==
    LET context == lower(e.parent_context \o <<" ">> \o e.sibling_context)
        patterns == AllPatterns(t.text_pattern_rules)
    IN  /\ \A i \in 1..Len(t.class_rules) :
              ~Contains(lower(t.class_rules[i].key), lower(e.class_name))
        /\ \A i \in 1..Len(patterns) :
              patterns[i] # <<>> => ~Contains(lower(patterns[i]), context)
        /\ \A i \in 1..Len(t.action_rules) :
              ~Contains(t.action_rules[i].key, context)

FallbackKeywords ==
    {<<"b","u","t","t","o","n">>, <<"i","m","a","g","e">>,
     <<"e","d","i","t","t","e","x","t">>, <<"t","e","x","t","v","i","e","w">>,
     <<"c","h","e","c","k","b","o","x">>, <<"r","a","d","i","o">>,
     <<"s","w","i","t","c","h">>, <<"s","e","e","k","b","a","r">>}

GenericNouns ==
    {LBL_BUTTON, LBL_IMAGE, LBL_EDITTEXT, LBL_TEXTVIEW, LBL_CHECKBOX,
     LBL_RADIO, LBL_SWITCH, LBL_SEEKBAR, LBL_UI_ELEMENT}

\* C11: an element with every field empty except class_name and no hit in
\* any rule table has confidence tier default with score 0.1 and a label of
\* the generic-noun fallback, which is the generic "UI yoso" when the
\* lowercased class name contains none of the fallback keywords.
C11_DefaultTier ==
    (OnlyClassName(element) /\ NoTableHit(element, tables)) =>
        /\ ConfCalled => conf = Confidence("default", 10)
        /\ LabelCalled =>
              /\ label.kind = "str"
              /\ label.val \in GenericNouns
              /\ (\A k \in FallbackKeywords :
                      ~Contains(k, lower(element.class_name)))
                 => label.val = LBL_UI_ELEMENT
              /\ Contains(<<"b","u","t","t","o","n">>, lower(element.class_name))
                 => label.val = LBL_BUTTON

\* a ProgressBar, with tables that hold entries none of which it hits
C11_Witness ==
    /\ element.class_name = <<"P","r","o","g","r","e","s","s","B","a","r">>
    /\ OnlyClassName(element)
    /\ NoTableHit(element, tables)
    /\ tables.resource_rules # <<>>
    /\ tables.class_rules # <<>>
    /\ label = Str(LBL_UI_ELEMENT)
    /\ conf = Confidence("default", 10)

----------------------------------------------------------------------------
(* Properties of the parsed records (specification SpecSystem)             *)

Analyzed == results.kind # "NotCalled"

\* the nodes of the document whose simple class name is allow-listed, in
\* document order
AllowListed(nodes) ==
    LET Listed(i) == LastSegment(nodes[i].tag) \in ui_classes
    IN  SelectSeq([i \in 1..Len(nodes) |-> i], Listed)

IsContainer(node) == LastSegment(node.tag) \notin ui_classes

\* C12: for a well-formed tree, analyze_xml_layout parses one record for
\* each node whose last '.'-separated tag segment is in the allow-list and
\* none for any other node; a container node, though it has no record, gives
\* its class name to the parent_context of its allow-listed children and to
\* the sibling_context of its allow-listed siblings.
C12_AllowList ==
    (WellFormed(markup) /\ Analyzed) =>
        LET nodes == markup.nodes
            listed == AllowListed(nodes)
        IN  /\ Len(parsed) = Len(listed)
            /\ \A k \in 1..Len(listed) :
                  LET i == listed[k]
                  IN  /\ parsed[k].class_name = nodes[i].tag
                      /\ (nodes[i].parent # 0
                          /\ IsContainer(nodes[nodes[i].parent]))
                         => startswith(parsed[k].parent_context,
                                LastSegment(nodes[nodes[i].parent].tag)
                                \o <<":">>)
                      /\ \A j \in 1..Len(nodes) :
                            (/\ j # i
                             /\ nodes[i].parent # 0
                             /\ nodes[j].parent = nodes[i].parent
                             /\ IsContainer(nodes[j]))
                            => Contains(LastSegment(nodes[j].tag),
                                        parsed[k].sibling_context)

\* a qualified EditText in a LinearLayout next to another LinearLayout: one
\* record, its contexts naming both containers
C12_Witness ==
    /\ WellFormed(markup)
    /\ Analyzed
    /\ Len(markup.nodes) = 3
    /\ IsContainer(markup.nodes[1])
    /\ IsContainer(markup.nodes[2])
    /\ markup.nodes[3].parent = 1
    /\ markup.nodes[2].parent = 1
    /\ Len(parsed) = 1
    /\ parsed[1].class_name =
          <<"a","n","d","r","o","i","d",".","w","i","d","g","e","t",".",
            "E","d","i","t","T","e","x","t">>
    /\ parsed[1].parent_context =
          <<"L","i","n","e","a","r","L","a","y","o","u","t",":">>
    /\ parsed[1].sibling_context =
          <<"L","i","n","e","a","r","L","a","y","o","u","t">>

----------------------------------------------------------------------------
(* Helper methods called on their own (specification SpecHelper)           *)

\* the arguments of one call: the method, and those of its parameters
\* element, alt_text, confidence_score, resource_id that it takes
Call(method, e, alt_text, confidence_score, resource_id) ==
    [method |-> method, element |-> e, alt_text |-> alt_text,
     confidence_score |-> confidence_score, resource_id |-> resource_id]

\* confidence scores in hundredths, every one from 0.00 to 1.00
Scores == 0..100

PriorityCalls ==
    {Call("_calculate_priority",
          UIElement(<<>>, <<"B","u","t","t","o","n">>, <<>>, <<>>, cl,
                    <<>>, <<>>, <<>>),
          <<>>, score, <<>>) :
        cl \in BOOLEAN, score \in Scores}

SuggestionCalls ==
    {Call("_generate_suggestions",
          UIElement(<<>>, <<"B","u","t","t","o","n">>, <<>>, cd, cl,
                    <<>>, <<>>, <<>>),
          LBL_BUTTON, score, <<>>) :
        cd \in Descriptions \cup {<<"x">>}, cl \in BOOLEAN, score \in Scores}

\* raw android:id values: with the "@+id/" or the "@id/" marker, with another
\* prefix, or bare
IdMarkers ==
    {<<>>, <<"@","+","i","d","/">>, <<"@","i","d","/">>,
     <<"@","a",":","i","d","/">>}

IdNames ==
    {<<>>, <<"a">>, <<"a","b">>, <<"a","/","b">>, <<"b","a","c","k">>,
     <<"@","i","d","/","a">>}

NormalizeCalls ==
    {Call("_normalize_resource_id", NoElement, <<>>, 0, marker \o name) :
        marker \in IdMarkers, name \in IdNames}

\* class names the default fallback is asked about: the widgets of the
\* allow-list that hold a keyword, names holding two keywords, upper case
DefaultSimpleNames ==
    {<<>>,
     <<"B","u","t","t","o","n">>,
     <<"I","m","a","g","e","B","u","t","t","o","n">>,
     <<"R","a","d","i","o","B","u","t","t","o","n">>,
     <<"T","o","g","g","l","e","B","u","t","t","o","n">>,
     <<"F","l","o","a","t","i","n","g","A","c","t","i","o","n","B","u","t","t","o","n">>,
     <<"R","a","d","i","o","G","r","o","u","p">>,
     <<"I","m","a","g","e","V","i","e","w">>,
     <<"E","d","i","t","T","e","x","t">>,
     <<"T","e","x","t","V","i","e","w">>,
     <<"C","h","e","c","k","B","o","x">>,
     <<"C","h","e","c","k","B","o","x","R","a","d","i","o">>,
     <<"S","w","i","t","c","h">>,
     <<"S","e","e","k","B","a","r">>,
     <<"S","w","i","t","c","h","S","e","e","k","B","a","r">>,
     <<"P","r","o","g","r","e","s","s","B","a","r">>,
     <<"B","U","T","T","O","N">>,
     <<"R","A","D","I","O","G","R","O","U","P">>}

DefaultCalls ==
    {Call("_get_default_alt_text",
          UIElement(<<>>, package \o name, <<>>, <<>>, cl, <<>>, <<>>, <<>>),
          <<>>, 0, <<>>) :
        package \in {<<>>, <<"a",".","w",".">>}, name \in DefaultSimpleNames,
        cl \in BOOLEAN}

HelperCalls ==
    PriorityCalls \cup SuggestionCalls \cup NormalizeCalls \cup DefaultCalls

\* a system constructed, and the call its caller is about to make
InitHelper ==
    /\ tables = EmptyTables
    /\ files = ValidFiles(tables)
    /\ loaded = tables
    /\ pc = "ready"
    /\ element = NoElement
    /\ label = NotCalled
    /\ alts = NoList
    /\ conf = NoConfidence
    /\ markup = <<>>
    /\ results = NoList
    /\ report = NoReport
    /\ parsed = <<>>
    /\ arg \in HelperCalls
    /\ ret = NotCalled

Returned == ret.kind # "NotCalled"

CalculatePriority ==
    /\ arg.method = "_calculate_priority"
    /\ ~Returned
    /\ ret' = [kind |-> "str",
               val |-> _calculate_priority(arg.element, arg.confidence_score)]
    /\ UNCHANGED <<files, tables, loaded, pc, element, label, alts, conf,
                   markup, results, report, parsed, arg>>

GenerateSuggestions ==
    /\ arg.method = "_generate_suggestions"
    /\ ~Returned
    /\ ret' = List(_generate_suggestions(arg.element, arg.alt_text,
                                         arg.confidence_score))
    /\ UNCHANGED <<files, tables, loaded, pc, element, label, alts, conf,
                   markup, results, report, parsed, arg>>

NormalizeResourceId ==
    /\ arg.method = "_normalize_resource_id"
    /\ ~Returned
    /\ ret' = Str(_normalize_resource_id(arg.resource_id))
    /\ UNCHANGED <<files, tables, loaded, pc, element, label, alts, conf,
                   markup, results, report, parsed, arg>>

GetDefaultAltText ==
    /\ arg.method = "_get_default_alt_text"
    /\ ~Returned
    /\ ret' = Str(_get_default_alt_text(arg.element))
    /\ UNCHANGED <<files, tables, loaded, pc, element, label, alts, conf,
                   markup, results, report, parsed, arg>>

NextHelper ==
    \/ CalculatePriority
    \/ GenerateSuggestions
    \/ NormalizeResourceId
    \/ GetDefaultAltText

SpecHelper == InitHelper /\ [][NextHelper]_vars

\* C13: _calculate_priority answers high exactly when the element is
\* clickable and the score exceeds 0.8, otherwise medium exactly when it is
\* clickable or the score exceeds 0.6, otherwise low; the thresholds are
\* strict (clickable at 0.8 is medium, not clickable at 0.6 is low).
C13_Priority ==
    (arg.method = "_calculate_priority" /\ Returned) =>
        LET clickable == arg.element.clickable
            score == arg.confidence_score
            high == clickable /\ score > 80
            medium == ~high /\ (clickable \/ score > 60)
        IN  /\ ret.val = "high" <=> high
            /\ ret.val = "medium" <=> medium
            /\ ret.val = "low" <=> (~high /\ ~medium)
            /\ (clickable /\ score = 80) => ret.val = "medium"
            /\ (~clickable /\ score = 60) => ret.val = "low"

\* a clickable element at exactly 0.8 got medium
C13_Witness ==
    /\ arg.method = "_calculate_priority"
    /\ arg.element.clickable
    /\ arg.confidence_score = 80
    /\ Returned
    /\ ret.val = "medium"

\* the number of suggestions of one type in a returned list
CountType(suggestions, type) ==
    LET OfType(s) == s.type = type
    IN  Len(SelectSeq(suggestions, OfType))

SuggestionTypes ==
    {"missing_content_description", "improvement_suggestion",
     "clickable_without_description"}

\* C14: the suggestions of an element are exactly: one
\* missing_content_description iff content_description is empty, one
\* improvement_suggestion iff content_description is present and the score
\* exceeds 0.7, one clickable_without_description iff the element is
\* clickable and content_description is empty; a clickable element without
\* description gets the first and the third as two suggestions.
C14_SuggestionTypes ==
    (arg.method = "_generate_suggestions" /\ Returned) =>
        LET e == arg.element
            empty == e.content_description = <<>>
            Expected(cond) == IF cond THEN 1 ELSE 0
        IN  /\ \A k \in 1..Len(ret.val) : ret.val[k].type \in SuggestionTypes
            /\ CountType(ret.val, "missing_content_description")
                   = Expected(empty)
            /\ CountType(ret.val, "improvement_suggestion")
                   = Expected(~empty /\ arg.confidence_score > 70)
            /\ CountType(ret.val, "clickable_without_description")
                   = Expected(e.clickable /\ empty)
            /\ (e.clickable /\ empty) =>
                   /\ Len(ret.val) = 2
                   /\ ret.val[1].type = "missing_content_description"
                   /\ ret.val[2].type = "clickable_without_description"

\* a description at exactly 0.7 got no suggestion at all
C14_Witness ==
    /\ arg.method = "_generate_suggestions"
    /\ arg.element.content_description = <<"x">>
    /\ arg.confidence_score = 70
    /\ Returned
    /\ ret.val = <<>>

\* a clickable element without description got two suggestions
C14_WitnessBoth ==
    /\ arg.method = "_generate_suggestions"
    /\ arg.element.clickable
    /\ arg.element.content_description = <<>>
    /\ Returned
    /\ Len(ret.val) = 2

----------------------------------------------------------------------------
(* Further properties of the label and the confidence (specification Spec) *)

\* C15: the explicit-description tier applies, for the label and for the
\* confidence alike, only when content_description is non-empty after
\* trimming: with a description of whitespace only the confidence is not
\* content_description / 1.0 and the label comes from a later tier.
C15_TrimmedDescription ==
    (element.content_description # <<>>
     /\ ~HasNonSpace(element.content_description)) =>
        /\ ConfCalled => (conf.tier # "content_description" /\ conf.score # 100)
        /\ LabelCalled => label = LabelFromRules(element, tables)

----------------------------------------------------------------------------
(* Partial matches of a resource id (specification SpecPartial)            *)

PartialKeys == {<<"a">>, <<"b">>, <<"B">>, <<"a","b">>, <<"x">>}
PartialLists == {<<<<"<k1>">>, <<"<k2>">>>>, <<<<"<k2>">>>>, <<<<"<k3>">>>>}
PartialIds == {<<"a","b">>, <<"a","B">>, <<"c","a","b">>}

PartialTables ==
    {[EmptyTables EXCEPT !.resource_rules = d] :
        d \in UNION {Dicts(PartialKeys, PartialLists, n) : n \in 1..MaxEntries}}

PartialElements ==
    {UIElement(id, cn, <<>>, <<>>, FALSE, <<>>, <<>>, <<>>) :
        id \in PartialIds, cn \in ClassNames}

\* an engine constructed over a resource_id_rules.json of candidates that are
\* all non-empty, the other files holding {}
InitPartial ==
    /\ tables \in PartialTables
    /\ files = ValidFiles(tables)
    /\ loaded = tables
    /\ pc = "ready"
    /\ element \in PartialElements
    /\ label = NotCalled
    /\ alts = NoList
    /\ conf = NoConfidence
    /\ markup = <<>>
    /\ results = NoList
    /\ report = NoReport
    /\ parsed = <<>>
    /\ arg = <<>>
    /\ ret = NotCalled

NextPartial ==
    \/ GenerateAltText
    \/ GetMatchingConfidence

SpecPartial == InitPartial /\ [][NextPartial]_vars

\* the entries of resource_rules whose key is, case-insensitively, a substring
\* of the resource id
SubstringEntries(resource_id, t) ==
    {i \in 1..Len(t.resource_rules) :
        Contains(lower(t.resource_rules[i].key), lower(resource_id))}

\* among them the longest key, the first in table order of those of that
\* length
LongestFirstInTable(resource_id, t) ==
    CHOOSE i \in SubstringEntries(resource_id, t) :
        \A j \in SubstringEntries(resource_id, t) :
            \/ Len(t.resource_rules[j].key) < Len(t.resource_rules[i].key)
            \/ (Len(t.resource_rules[j].key) = Len(t.resource_rules[i].key)
                /\ i <= j)

\* C16: when resource_id is not an exact key of resource_rules, the label of
\* an element without description is the first candidate of the longest key
\* that is a case-insensitive substring of resource_id, and among several
\* such keys of maximal length of the one that comes first in the table.
C16_LongestFirstInTable ==
    (/\ LabelCalled
     /\ element.content_description = <<>>
     /\ ~HasKey(tables.resource_rules, element.resource_id)
     /\ SubstringEntries(element.resource_id, tables) # {}) =>
        label = Str(tables.resource_rules[
                        LongestFirstInTable(element.resource_id, tables)].val[1])

\* the element has no description, and no key of resource_rules is found in
\* its resource id
NoResourceMatch ==
    /\ element.content_description = <<>>
    /\ \A k \in 1..Len(tables.resource_rules) :
          ~Contains(lower(tables.resource_rules[k].key),
                    lower(element.resource_id))

\* the entries of app_specific_rules whose key is a substring of app_context
AppEntries ==
    LET Hit(entry) == Contains(entry.key, element.app_context)
    IN  SelectSeq(tables.app_specific_rules, Hit)

AppContextApplies ==
    NoResourceMatch /\ element.app_context # <<>> /\ AppEntries # <<>>

\* C17 as the claim states it: without description and resource-id match,
\* whenever app_context contains a key of app_specific_rules, the label is the
\* first candidate of a matching entry and the confidence is app_context with
\* score 0.7.
C17_Original ==
    AppContextApplies =>
        /\ ConfCalled => conf = Confidence("app_context", 70)
        /\ LabelCalled =>
              \E k \in 1..Len(AppEntries) :
                  /\ AppEntries[k].val # <<>>
                  /\ label = Str(AppEntries[k].val[1])

\* C17 amended: without description and resource-id match, whenever
\* app_context contains a key of app_specific_rules, the confidence is
\* app_context with score 0.7, and the label is the first candidate of the
\* first matching entry in table order when that candidate exists and is a
\* non-empty string.
C17_AppContext ==
    AppContextApplies =>
        /\ ConfCalled => conf = Confidence("app_context", 70)
        /\ (/\ LabelCalled
            /\ AppEntries[1].val # <<>>
            /\ AppEntries[1].val[1] # <<>>) => label = Str(AppEntries[1].val[1])

\* two keys are found in the app context, the first of them supplied the
\* label, past a text and a class name
C17_Witness ==
    /\ AppContextApplies
    /\ Len(AppEntries) = 2
    /\ label = Str(<<"<a1>">>)
    /\ conf = Confidence("app_context", 70)
    /\ AppEntries[2].val # <<<<"<a1>">>>>
    /\ element.text # <<>>
    /\ element.class_name # <<>>

\* no key of app_specific_rules is found in the app context
NoAppMatch ==
    \/ element.app_context = <<>>
    \/ \A k \in 1..Len(tables.app_specific_rules) :
          ~Contains(tables.app_specific_rules[k].key, element.app_context)

\* no pattern of text_pattern_rules is contained in the text
NoDirectHit ==
    \A i \in 1..Len(AllPatterns(tables.text_pattern_rules)) :
        ~Contains(lower(AllPatterns(tables.text_pattern_rules)[i]),
                  lower(element.text))

\* the whitespace tokens of the lowercased text that are keys of action_rules
ActionTokens ==
    LET IsAction(w) == HasKey(tables.action_rules, w)
    IN  SelectSeq(split(lower(element.text)), IsAction)

\* the patterns, in category then list order, that contain the token
PatternsWith(token) ==
    LET Has(p) == Contains(token, lower(p))
    IN  SelectSeq(AllPatterns(tables.text_pattern_rules), Has)

\* C18: when no pattern is directly contained in the text, the text tier
\* answers, for the first whitespace token of the lowercased text that is a
\* key of action_rules, the first pattern (in category then list order) that
\* itself contains that token; here for an element whose label the text tier
\* decides.
C18_ActionWordPattern ==
    (/\ LabelCalled
     /\ NoResourceMatch
     /\ NoAppMatch
     /\ element.text # <<>>
     /\ NoDirectHit
     /\ ActionTokens # <<>>
     /\ PatternsWith(ActionTokens[1]) # <<>>) =>
        /\ label = Str(PatternsWith(ActionTokens[1])[1])
        /\ Contains(ActionTokens[1], lower(label.val))

----------------------------------------------------------------------------
(* Class-name matching (specification SpecClass)                           *)

ExactClass == HasKey(tables.class_rules, element.class_name)

SimpleClass ==
    ~ExactClass /\ HasKey(tables.class_rules, LastSegment(element.class_name))

\* the entries of class_rules whose key is, case-insensitively, a substring
\* of the class name
SubstringClassEntries ==
    LET Hit(entry) == Contains(lower(entry.key), lower(element.class_name))
    IN  SelectSeq(tables.class_rules, Hit)

SubstringOnlyClass ==
    ~ExactClass /\ ~SimpleClass /\ SubstringClassEntries # <<>>

\* the candidates of the first hit: exact name, then simple name, then the
\* first substring key in table order
ClassCandidates ==
    IF ExactClass THEN Lookup(tables.class_rules, element.class_name)
    ELSE IF SimpleClass
    THEN Lookup(tables.class_rules, LastSegment(element.class_name))
    ELSE SubstringClassEntries[1].val

\* C19: class-name matching tries the exact class name, then its simple
\* name, then the keys that are case-insensitive substrings of the class
\* name, and answers the first candidate of the first hit (seen, when that
\* candidate is a non-empty string, as the label of an element that has
\* nothing but a class name and context); a hit by
\* substring only never gives confidence tier class_name_exact or
\* class_name_simple: without text the tier is context_inference or default,
\* while an exact hit gives class_name_exact and a simple hit
\* class_name_simple.
C19_ClassNameMatch ==
    /\ (/\ LabelCalled
        /\ element.text = <<>>
        /\ ExactClass \/ SimpleClass \/ SubstringOnlyClass
        /\ ClassCandidates # <<>>
        /\ ClassCandidates[1] # <<>>) => label = Str(ClassCandidates[1])
    /\ (ConfCalled /\ SubstringOnlyClass) =>
          /\ conf.tier \notin {"class_name_exact", "class_name_simple"}
          /\ element.text = <<>> =>
                conf.tier \in {"context_inference", "default"}
    /\ (ConfCalled /\ element.text = <<>> /\ ExactClass) =>
          conf = Confidence("class_name_exact", 50)
    /\ (ConfCalled /\ element.text = <<>> /\ SimpleClass) =>
          conf = Confidence("class_name_simple", 40)

\* a Button hit the key "b" by substring only: the key's first candidate is
\* the label, the confidence is default
C19_Witness ==
    /\ element.class_name = <<"B","u","t","t","o","n">>
    /\ element.text = <<>>
    /\ SubstringOnlyClass
    /\ label = Str(<<"<c1>">>)
    /\ conf = Confidence("default", 10)

\* what follows the first n characters of s
After(s, n) == SubSeq(s, n + 1, Len(s))

\* C20: _normalize_resource_id removes a leading "@+id/" or "@id/" and
\* answers exactly the identifier that follows the marker; an id without
\* such a marker is answered unchanged, the empty id as the empty string.
C20_BareIdentifier ==
    (arg.method = "_normalize_resource_id" /\ Returned) =>
        ret.val =
            IF startswith(arg.resource_id, <<"@","+","i","d","/">>)
            THEN After(arg.resource_id, 5)
            ELSE IF startswith(arg.resource_id, <<"@","i","d","/">>)
            THEN After(arg.resource_id, 4)
            ELSE arg.resource_id

----------------------------------------------------------------------------
(* Context strings of the parsed records (specification SpecSystem)        *)

\* the children of node p of the tree other than node i, in document order
OtherChildren(tree, p, i) ==
    LET IsOther(j) == tree[j].parent = p /\ j # i
    IN  SelectSeq([j \in 1..Len(tree) |-> j], IsOther)

\* "class:text" when the node has text, else "class:id" when it has an id,
\* else the bare simple class name; text and id as the parser reads them
NodeSummary(node) ==
    LET id == _normalize_resource_id(get(node, QName("android", "id"), <<>>))
        text == get(node, QName("android", "text"), <<>>)
    IN  IF text # <<>> THEN LastSegment(node.tag) \o <<":">> \o text
        ELSE IF id # <<>> THEN LastSegment(node.tag) \o <<":">> \o id
        ELSE LastSegment(node.tag)

\* C21: for every emitted record, parent_context and each sibling summary use
\* the same format ("class:text" when the node has text, else "class:id" when
\* it has an id, else the bare simple class name); parent_context summarizes
\* the immediate parent and is empty for the root, and sibling_context is the
\* space-joined summaries, in document order, of every other child of that
\* parent.
C21_ContextFormat ==
    (WellFormed(markup) /\ Analyzed) =>
        LET tree == fromstring(markup).val
            listed == AllowListed(markup.nodes)
        IN  \A k \in 1..Len(parsed) :
                LET i == listed[k]
                    p == tree[i].parent
                    others == OtherChildren(tree, p, i)
                IN  /\ parsed[k].parent_context =
                          (IF p = 0 THEN <<>> ELSE NodeSummary(tree[p]))
                    /\ parsed[k].sibling_context =
                          (IF p = 0 THEN <<>>
                           ELSE join([n \in 1..Len(others) |->
                                         NodeSummary(tree[others[n]])]))

----------------------------------------------------------------------------
(* Order of the results and of the report (specification SpecSystem)       *)

\* every suggestion of every result, paired with its result: result by
\* result, and within a result in the order of its suggestions
RECURSIVE AllSuggestions(_)
AllSuggestions(rs) ==
    IF rs = <<>> THEN <<>>
    ELSE [k \in 1..Len(rs[1].suggestions) |->
             [result |-> rs[1], suggestion |-> rs[1].suggestions[k]]]
         \o AllSuggestions(Tail(rs))

\* the entries a bucket holds when it keeps the order of the results
InResultOrder(rs, priorities) ==
    LET Mine(p) == p.suggestion.priority \in priorities
        mine == SelectSeq(AllSuggestions(rs), Mine)
    IN  [k \in 1..Len(mine) |-> BucketEntry(mine[k].result, mine[k].suggestion)]

\* C22: the results analyze_xml_layout returns for a well-formed document
\* hold exactly one result per allow-listed node, in document order (depth
\* first, a node before its children), and each bucket of the report lists
\* its suggestions in that same order.
C22_TraversalOrder ==
    (WellFormed(markup) /\ results.kind = "list") =>
        LET nodes == markup.nodes
            listed == AllowListed(nodes)
        IN  /\ Len(results.val) = Len(listed)
            /\ \A k \in 1..Len(listed) :
                  results.val[k].class_name = nodes[listed[k]].tag
            /\ report.kind = "dict" =>
                  /\ report.val.suggestions.high_priority =
                        InResultOrder(results.val, {"high"})
                  /\ report.val.suggestions.medium_priority =
                        InResultOrder(results.val, {"medium"})

\* a Button holding a TextView that holds a qualified EditText: three results
\* in that order, and three entries of the medium bucket with three different
\* suggested labels
C22_Witness ==
    /\ WellFormed(markup)
    /\ Len(markup.nodes) = 3
    /\ markup.nodes[1].tag = <<"B","u","t","t","o","n">>
    /\ markup.nodes[2].tag = <<"T","e","x","t","V","i","e","w">>
    /\ LastSegment(markup.nodes[3].tag) = <<"E","d","i","t","T","e","x","t">>
    /\ markup.nodes[2].parent = 1
    /\ markup.nodes[3].parent = 2
    /\ results.kind = "list"
    /\ Len(results.val) = 3
    /\ report.kind = "dict"
    /\ Len(report.val.suggestions.medium_priority) = 3
    /\ \A i, j \in 1..3 :
          i # j => report.val.suggestions.medium_priority[i].suggested
                   # report.val.suggestions.medium_priority[j].suggested

----------------------------------------------------------------------------
(* No call aborts (specification SpecAlternatives)                         *)

\* C23: for rule tables in the schema of the rule files, empty candidate
\* arrays included, and for any element, generate_alt_text, get_alternatives
\* and get_matching_confidence each return a result: an entry with an empty
\* candidate array only lowers the match and never ends the call with an
\* error.
C23_NeverAborts ==
    /\ label.kind # "NotCalled" => label.kind = "str"
    /\ alts.kind # "NotCalled" => alts.kind = "list"
    /\ conf.tier # "IndexError"

----------------------------------------------------------------------------
(* load_rules run again while one result is being built (specification     *)
(* SpecReload).  Two threads share the engine: one runs load_rules over     *)
(* rule files that have changed, the other runs the three engine calls of   *)
(* _generate_accessibility_result.  The threads are interleaved between     *)
(* the statements of load_rules and between the three calls; the engine has *)
(* no lock.                                                                 *)

\* the position of load_rules: about to open its i-th file, or returned
LoadPoints == <<"load1", "load2", "load3", "load4", "load5", "ready">>

LoadPoint == CHOOSE i \in 1..Len(LoadPoints) : LoadPoints[i] = pc

\* the tables the rule files hold
FileTables(fs) == [name \in DOMAIN fs |-> fs[name].content]

ReloadElements ==
    {UIElement(id, cn, <<>>, <<>>, FALSE, <<>>, <<>>, <<>>) :
        id \in ResourceIds, cn \in ClassNames}

\* an engine constructed over rule files that have since been rewritten, and
\* load_rules called again
InitReload ==
    /\ tables \in SystemTables
    /\ loaded = tables
    /\ files \in {ValidFiles(t) : t \in SystemTables}
    /\ pc = "load1"
    /\ element \in ReloadElements
    /\ label = NotCalled
    /\ alts = NoList
    /\ conf = NoConfidence
    /\ markup = <<>>
    /\ results = NoList
    /\ report = NoReport
    /\ parsed = <<>>
    /\ arg = <<>>
    /\ ret = NotCalled

\* one `with open(...) as f: self.<table> = json.load(f)` of load_rules
ReloadTable ==
    /\ pc # "ready"
    /\ tables' = [tables EXCEPT ![LoadOrder[LoadPoint]] =
                     files[LoadOrder[LoadPoint]].content]
    /\ pc' = LoadPoints[LoadPoint + 1]
    /\ UNCHANGED <<parsed, arg, ret, files, loaded, element, label, alts, conf,
                   markup, results, report>>

\* alt_text = self.rule_engine.generate_alt_text(element)
ResultAltText ==
    /\ label.kind = "NotCalled"
    /\ label' = generate_alt_text(element, tables)
    /\ UNCHANGED <<parsed, arg, ret, files, tables, loaded, pc, element, alts,
                   conf, markup, results, report>>

\* alternatives = self.rule_engine.get_alternatives(element)
ResultAlternatives ==
    /\ label.kind = "str"
    /\ alts.kind = "NotCalled"
    /\ alts' = List(get_alternatives(element, tables))
    /\ UNCHANGED <<parsed, arg, ret, files, tables, loaded, pc, element, label,
                   conf, markup, results, report>>

\* confidence_type, confidence_score =
\*     self.rule_engine.get_matching_confidence(element)
ResultConfidence ==
    /\ alts.kind = "list"
    /\ conf.tier = "NotCalled"
    /\ conf' = get_matching_confidence(element, tables)
    /\ UNCHANGED <<parsed, arg, ret, files, tables, loaded, pc, element, label,
                   alts, markup, results, report>>

NextReload ==
    \/ ReloadTable
    \/ ResultAltText
    \/ ResultAlternatives
    \/ ResultConfidence

SpecReload == InitReload /\ [][NextReload]_vars

\* label, alternatives and confidence are the ones the tables t give
AnswersOf(t) ==
    /\ label = generate_alt_text(element, t)
    /\ alts = List(get_alternatives(element, t))
    /\ conf = get_matching_confidence(element, t)

\* C24: an inference that runs while load_rules reloads the tables observes
\* a consistent snapshot: its three answers are those of the five tables as
\* they were before the reload, or those of the five tables as they are
\* after it, never of a mixture of old and new tables.
C24_ConsistentSnapshot ==
    conf.tier # "NotCalled" =>
        \/ AnswersOf(loaded)
        \/ AnswersOf(FileTables(files))

----------------------------------------------------------------------------
(* The label is never empty (specification Spec)                           *)

\* what each tier above the default offers for an element: its candidate, or
\* None where the tier is not tried or finds nothing
TierCandidates(e, t) ==
    <<IF e.content_description # <<>> /\ HasNonSpace(e.content_description)
      THEN Str(e.content_description) ELSE None,
      IF e.resource_id # <<>> THEN _match_resource_id(e.resource_id, t)
      ELSE None,
      IF e.app_context # <<>> THEN _match_app_context(e, t) ELSE None,
      IF e.text # <<>> THEN _match_text_pattern(e.text, t) ELSE None,
      IF e.class_name # <<>> THEN _match_class_name(e.class_name, t)
      ELSE None,
      _infer_from_context(e, t)>>

\* C25: whenever generate_alt_text returns, the label is a non-empty string:
\* a tier whose candidate is missing or the empty string is skipped and the
\* next tier is tried, so the label is the candidate of the first tier that
\* has a non-empty one, and with no such tier the default fallback returns
\* one of the nine generic nouns, all non-empty.
C25_NonEmptyLabel ==
    label.kind = "str" =>
        LET c == TierCandidates(element, tables)
            Offers(k) == c[k].kind = "str" /\ c[k].val # <<>>
        IN  /\ label.val # <<>>
            /\ \A k \in 1..Len(c) :
                  (Offers(k) /\ \A j \in 1..(k - 1) : ~Offers(j))
                  => label = c[k]
            /\ (\A k \in 1..Len(c) : ~Offers(k)) => label.val \in GenericNouns
            /\ <<>> \notin GenericNouns

\* the exact resource key's first candidate is the empty string and no other
\* tier has a candidate: the label is a generic noun
C25_Witness ==
    /\ element.resource_id # <<>>
    /\ _match_resource_id(element.resource_id, tables) = Str(<<>>)
    /\ label.kind = "str"
    /\ label.val \in GenericNouns

\* an empty first candidate under the exact resource key, skipped for the
\* candidate of the class tier
C25_WitnessNextTier ==
    /\ element.resource_id # <<>>
    /\ _match_resource_id(element.resource_id, tables) = Str(<<>>)
    /\ element.class_name # <<>>
    /\ label = _match_class_name(element.class_name, tables)
    /\ label.kind = "str"
    /\ label.val # <<>>

----------------------------------------------------------------------------
(* Priorities of the suggestions (specification SpecResult)                *)

\* the priority a suggestion of result r carries, by its type alone
OwnPriority(r, s) ==
    IF s.type = "improvement_suggestion" THEN "medium"
    ELSE IF s.type = "missing_content_description"
    THEN (IF r.clickable THEN "high" ELSE "medium")
    ELSE "high"

\* C26: in every report generated from the results, the low_priority bucket
\* is empty and low_priority_count is 0: each suggestion carries its own
\* priority (high, or medium for a non-clickable missing description and for
\* every improvement suggestion), whatever the confidence score and the
\* priority of its element, so the suggestion of an element of priority low
\* is filed under medium.
C26_NoLowBucket ==
    Reported =>
        /\ report.val.suggestions.low_priority = <<>>
        /\ report.val.statistics.low_priority_count = 0
        /\ \A i \in 1..Len(results.val) :
              LET r == results.val[i]
              IN  \A k \in 1..Len(r.suggestions) :
                      /\ r.suggestions[k].priority = OwnPriority(r, r.suggestions[k])
                      /\ r.priority = "low" =>
                            \E n \in 1..Len(report.val.suggestions.medium_priority) :
                                report.val.suggestions.medium_priority[n] =
                                    BucketEntry(r, r.suggestions[k])

\* a report over an element of priority low with a suggestion, an element
\* with a high suggestion and an element with an improvement suggestion
C26_Witness ==
    /\ Reported
    /\ Len(results.val) = 3
    /\ \E i \in 1..3 : /\ results.val[i].priority = "low"
                       /\ results.val[i].suggestions # <<>>
    /\ \E i \in 1..3 : \E k \in 1..Len(results.val[i].suggestions) :
          results.val[i].suggestions[k].priority = "high"
    /\ \E i \in 1..3 : \E k \in 1..Len(results.val[i].suggestions) :
          results.val[i].suggestions[k].type = "improvement_suggestion"
    /\ report.val.statistics.medium_priority_count >= 2
    /\ report.val.statistics.low_priority_count = 0

----------------------------------------------------------------------------
(* Elements that have a description (specification SpecResult)             *)

\* C27: every element with a non-empty content_description receives exactly
\* one suggestion, of type improvement_suggestion with priority medium (its
\* confidence is 1.0), and when the description has a non-whitespace
\* character the suggested text of that suggestion is the current
\* description.
C27_DescribedElement ==
    element.content_description # <<>> =>
        /\ results.kind = "list"
        /\ LET r == results.val[Len(results.val)]
           IN  /\ Len(r.suggestions) = 1
               /\ r.suggestions[1].type = "improvement_suggestion"
               /\ r.suggestions[1].priority = "medium"
               /\ r.suggestions[1].confidence = 100
               /\ r.suggestions[1].current = element.content_description
               /\ HasNonSpace(element.content_description)
                  => r.suggestions[1].suggested = element.content_description

----------------------------------------------------------------------------
(* Arithmetic of the report (specification SpecResult)                     *)

\* the number of suggestions of all the results
RECURSIVE TotalSuggestions(_)
TotalSuggestions(rs) ==
    IF rs = <<>> THEN 0
    ELSE Len(rs[1].suggestions) + TotalSuggestions(Tail(rs))

\* C28: for every list of results, the report satisfies
\* elements_with_content_description + elements_without_content_description
\* = total_elements; each of high/medium/low_priority_count is the length of
\* its bucket; and the three counts sum to the number of suggestions of all
\* the results (every suggestion is in exactly one bucket).
C28_ReportSums ==
    Reported =>
        LET summary == report.val.summary
            statistics == report.val.statistics
            suggestions == report.val.suggestions
        IN  /\ summary.elements_with_content_description
               + summary.elements_without_content_description
               = summary.total_elements
            /\ summary.total_elements = Len(results.val)
            /\ statistics.high_priority_count = Len(suggestions.high_priority)
            /\ statistics.medium_priority_count = Len(suggestions.medium_priority)
            /\ statistics.low_priority_count = Len(suggestions.low_priority)
            /\ statistics.high_priority_count + statistics.medium_priority_count
               + statistics.low_priority_count = TotalSuggestions(results.val)

\* a report of three results, with and without description, one of them with
\* two suggestions
C28_Witness ==
    /\ Reported
    /\ report.val.summary.total_elements = 3
    /\ report.val.summary.elements_with_content_description = 1
    /\ report.val.summary.elements_without_content_description = 2
    /\ report.val.statistics.high_priority_count = 2
    /\ report.val.statistics.medium_priority_count = 2
    /\ TotalSuggestions(results.val) = 4

----------------------------------------------------------------------------
(* Order of the default fallback (specification SpecHelper)                *)

\* the keywords of the fallback with their nouns, in the claimed order
KeywordOrder ==
    <<[keyword |-> <<"b","u","t","t","o","n">>, noun |-> LBL_BUTTON],
      [keyword |-> <<"i","m","a","g","e">>, noun |-> LBL_IMAGE],
      [keyword |-> <<"e","d","i","t","t","e","x","t">>, noun |-> LBL_EDITTEXT],
      [keyword |-> <<"t","e","x","t","v","i","e","w">>, noun |-> LBL_TEXTVIEW],
      [keyword |-> <<"c","h","e","c","k","b","o","x">>, noun |-> LBL_CHECKBOX],
      [keyword |-> <<"r","a","d","i","o">>, noun |-> LBL_RADIO],
      [keyword |-> <<"s","w","i","t","c","h">>, noun |-> LBL_SWITCH],
      [keyword |-> <<"s","e","e","k","b","a","r">>, noun |-> LBL_SEEKBAR]>>

DefaultReturned == arg.method = "_get_default_alt_text" /\ Returned

\* C29: the default fallback tests the keywords button, image, edittext,
\* textview, checkbox, radio, switch, seekbar in that order against the
\* lowercased class name and returns the noun of the first keyword found;
\* hence every class name containing "button" gets the label of button, and
\* the label of radio is returned only for class names containing "radio"
\* but none of button, image, edittext, textview, checkbox.
C29_FallbackOrder ==
    DefaultReturned =>
        LET class_name == lower(arg.element.class_name)
            Found(k) == Contains(KeywordOrder[k].keyword, class_name)
        IN  /\ \A k \in 1..Len(KeywordOrder) :
                  (Found(k) /\ \A j \in 1..(k - 1) : ~Found(j))
                  => ret = Str(KeywordOrder[k].noun)
            /\ (\A k \in 1..Len(KeywordOrder) : ~Found(k))
               => ret = Str(LBL_UI_ELEMENT)
            /\ Found(1) => ret = Str(LBL_BUTTON)
            /\ ret = Str(LBL_RADIO)
               <=> (Found(6) /\ \A j \in 1..5 : ~Found(j))

\* RadioButton holds "radio" and "button" and is labelled as a button
C29_Witness ==
    /\ DefaultReturned
    /\ arg.element.class_name = <<"R","a","d","i","o","B","u","t","t","o","n">>
    /\ ret = Str(LBL_BUTTON)

\* RadioGroup in upper case holds "radio" alone and is labelled as a radio
\* button
C29_WitnessRadio ==
    /\ DefaultReturned
    /\ arg.element.class_name = <<"R","A","D","I","O","G","R","O","U","P">>
    /\ ret = Str(LBL_RADIO)

=============================================================================
